---- MODULE Spec2Model ----
(***************************************************************************)
(* Jzon: JSON document tree (Object / Array / Value), escaping, tokenizer,  *)
(* assembler and writer, modelled from samples/Jzon.h and samples/Jzon.cpp. *)
(*                                                                         *)
(* A std::string is a sequence of characters; a character is a one-letter   *)
(* TLA+ string.  Characters that have no TLA+ spelling are named (BS, NUL). *)
(* A Node* is a natural number, the heap maps live pointers to node records.*)
(***************************************************************************)
EXTENDS Integers, Sequences, FiniteSets

\* ---------------------------------------------------------------- characters
BSL == "\\"
SL  == "/"
DQ  == "\""
NL  == "\n"
TAB == "\t"
BS  == "<BS>"
FF  == "\f"
CR  == "\r"
NUL == "<NUL>"
SPC == " "

\* bounds of the model
MaxEscLen == 2
MaxLen == 3
MaxCommentLen == 2
MaxOps == 3
MaxRoots == 3
MaxDepth == 8
MaxFirstLen == 2

Min(S) == CHOOSE x \in S : \A y \in S : x <= y

SeqsUpTo(S, n) == UNION {[1..k -> S] : k \in 0..n}

\* ------------------------------------------------------------------ escaping
chars ==
  << [first |-> BSL, second |-> <<BSL, BSL>>], [first |-> SL,  second |-> <<BSL, SL>>],
     [first |-> DQ,  second |-> <<BSL, DQ>>],  [first |-> NL,  second |-> <<BSL, "n">>],
     [first |-> TAB, second |-> <<BSL, "t">>], [first |-> BS,  second |-> <<BSL, "b">>],
     [first |-> FF,  second |-> <<BSL, "f">>], [first |-> CR,  second |-> <<BSL, "r">>] >>

nullUnescaped == NUL
nullEscaped == <<NUL, NUL>>

getEscaped(c) ==
  LET hits == {i \in 1..Len(chars) : chars[i].first = c}
  IN  IF hits = {} THEN nullEscaped ELSE chars[Min(hits)].second

\* the loop tests chars[0].first and chars[1].first on every iteration and
\* returns the iteration's own chr.first
getUnescaped(c1, c2) ==
  LET hits == {i \in 1..Len(chars) : c1 = chars[1].first /\ c2 = chars[2].first}
  IN  IF hits = {} THEN nullUnescaped ELSE chars[Min(hits)].first

RECURSIVE EscapeFrom(_, _)
EscapeFrom(value, i) ==
  IF i > Len(value) THEN <<>>
  ELSE LET c == value[i]
           a == getEscaped(c)
       IN  (IF a[1] # NUL THEN <<a[1], a[2]>> ELSE <<c>>) \o EscapeFrom(value, i + 1)

EscapeString(value) == EscapeFrom(value, 1)

RECURSIVE UnescapeFrom(_, _)
UnescapeFrom(value, i) ==
  IF i > Len(value) THEN <<>>
  ELSE LET c  == value[i]
           c2 == IF i + 1 <= Len(value) THEN value[i + 1] ELSE NUL
           a  == getUnescaped(c, c2)
       IN  IF a # NUL
           THEN <<a>> \o UnescapeFrom(value, IF i + 1 <= Len(value) THEN i + 2 ELSE i + 1)
           ELSE <<c>> \o UnescapeFrom(value, i + 1)

UnescapeString(value) == UnescapeFrom(value, 1)

\* ------------------------------------------------------------ document model
\* Node records; `children` of an Object is a sequence of NamedNodePtr
\* [first |-> name, second |-> pointer], of an Array a sequence of pointers.
ObjectNode(kids) == [type |-> "T_OBJECT", children |-> kids, vtype |-> "none", valueStr |-> <<>>]
ArrayNode(kids)  == [type |-> "T_ARRAY",  children |-> kids, vtype |-> "none", valueStr |-> <<>>]
ValueNode(vt, str) == [type |-> "T_VALUE", children |-> <<>>, vtype |-> vt, valueStr |-> str]

\* memory: the live nodes, and whether a pointer that is not live was deleted
\* or read (the program has then left its defined behaviour)
EmptyMem == [heap |-> <<>>, badFree |-> FALSE]

Live(m) == DOMAIN m.heap

\* operator new: an address that is not live
NewId(m) == Min({i \in 1..(Cardinality(Live(m)) + 1) : i \notin Live(m)})

Store(m, id, node) ==
  [m EXCEPT !.heap = [i \in Live(m) \cup {id} |-> IF i = id THEN node ELSE m.heap[i]]]

IsObject(m, id) == m.heap[id].type = "T_OBJECT"
IsArray(m, id)  == m.heap[id].type = "T_ARRAY"
IsValue(m, id)  == m.heap[id].type = "T_VALUE"

IsNull(m, id)   == IsValue(m, id) /\ m.heap[id].vtype = "VT_NULL"
IsString(m, id) == IsValue(m, id) /\ m.heap[id].vtype = "VT_STRING"
IsNumber(m, id) == IsValue(m, id) /\ m.heap[id].vtype = "VT_NUMBER"
IsBool(m, id)   == IsValue(m, id) /\ m.heap[id].vtype = "VT_BOOL"

ChildPtrs(node) ==
  IF node.type = "T_OBJECT" THEN [i \in 1..Len(node.children) |-> node.children[i].second]
  ELSE node.children

Digits == <<"0", "1", "2", "3", "4", "5", "6", "7", "8", "9">>

\* Value::SetNull / Value::Set overloads, as the new (vtype, valueStr) of the node
SetNull == ValueNode("VT_NULL", <<>>)
SetTyped(vt, str) == ValueNode(vt, str)
SetString(str) == ValueNode("VT_STRING", UnescapeString(str))
\* Value::Set(int): the text operator<< writes
RECURSIVE DecimalText(_)
DecimalText(n) == IF n < 10 THEN <<Digits[n + 1]>> ELSE Append(DecimalText(n \div 10), Digits[(n % 10) + 1])
SetInt(n) == ValueNode("VT_NUMBER", IF n < 0 THEN <<"-">> \o DecimalText(-n) ELSE DecimalText(n))
SetBool(b) == ValueNode("VT_BOOL", IF b THEN <<"t", "r", "u", "e">> ELSE <<"f", "a", "l", "s", "e">>)

\* Node::GetCopy: new Value(*this) / new Object(*this) / new Array(*this);
\* the copy constructors copy every child with GetCopy.  Result: [mem, id].
RECURSIVE GetCopy(_, _)
RECURSIVE CopyKids(_, _, _, _, _)
CopyKids(m, isObj, kids, i, acc) ==
  IF i > Len(kids) THEN [mem |-> m, kids |-> acc]
  ELSE LET src == IF isObj THEN kids[i].second ELSE kids[i]
           r   == GetCopy(m, src)
           ent == IF isObj THEN [first |-> kids[i].first, second |-> r.id] ELSE r.id
       IN  CopyKids(r.mem, isObj, kids, i + 1, Append(acc, ent))

\* GetCopy that copies the node and keeps the pointers to the children
GetCopy_Shallow(m, id) == [mem |-> Store(m, NewId(m), m.heap[id]), id |-> NewId(m)]

GetCopy(m, id) ==
  LET node == m.heap[id]
      nid  == NewId(m)
  IN  IF id \notin Live(m) THEN [mem |-> [m EXCEPT !.badFree = TRUE], id |-> id]
      ELSE IF node.type = "T_VALUE"
      THEN [mem |-> Store(m, nid, ValueNode(node.vtype, node.valueStr)), id |-> nid]
      ELSE LET isObj == node.type = "T_OBJECT"
               m1 == Store(m, nid, [node EXCEPT !.children = <<>>])
               r  == CopyKids(m1, isObj, node.children, 1, <<>>)
           IN  [mem |-> Store(r.mem, nid, [node EXCEPT !.children = r.kids]), id |-> nid]

\* delete node: ~Object / ~Array call Clear(), which deletes every child
RECURSIVE DeleteNode(_, _)
RECURSIVE DeleteAll(_, _, _)
DeleteAll(m, ptrs, i) ==
  IF i > Len(ptrs) THEN m ELSE DeleteAll(DeleteNode(m, ptrs[i]), ptrs, i + 1)

DeleteNode(m, id) ==
  IF id \notin Live(m) THEN [m EXCEPT !.badFree = TRUE]
  ELSE LET m1 == DeleteAll(m, ChildPtrs(m.heap[id]), 1)
       IN  [m1 EXCEPT !.heap = [i \in Live(m1) \ {id} |-> m1.heap[i]]]

SetChildren(m, id, kids) == [m EXCEPT !.heap[id].children = kids]

\* Object::Add(name, Node&) / Object::Add(name, const Value&)
ObjectAdd(m, obj, name, node) ==
  LET r == GetCopy(m, node)
  IN  SetChildren(r.mem, obj, Append(r.mem.heap[obj].children, [first |-> name, second |-> r.id]))

FirstNamed(kids, name) ==
  LET hits == {i \in 1..Len(kids) : kids[i].first = name}
  IN  IF hits = {} THEN 0 ELSE Min(hits)

Erase(seq, k) == [i \in 1..(Len(seq) - 1) |-> IF i < k THEN seq[i] ELSE seq[i + 1]]

\* Remove that erases every entry of the name
RECURSIVE ObjectRemove_All(_, _, _)
ObjectRemove_All(m, obj, name) ==
  LET kids == m.heap[obj].children
      k    == FirstNamed(kids, name)
  IN  IF k = 0 THEN m
      ELSE ObjectRemove_All(SetChildren(DeleteNode(m, kids[k].second), obj, Erase(kids, k)), obj, name)

ObjectRemove(m, obj, name) ==
  LET kids == m.heap[obj].children
      k    == FirstNamed(kids, name)
  IN  IF k = 0 THEN m
      ELSE SetChildren(DeleteNode(m, kids[k].second), obj, Erase(kids, k))

\* Object::Clear / Array::Clear
Clear(m, id) == SetChildren(DeleteAll(m, ChildPtrs(m.heap[id]), 1), id, <<>>)

\* target = src; of two Objects or of two Arrays: neither class declares an
\* operator=, the implicit one assigns the vector of pointers
Assign(m, target, src) == SetChildren(m, target, m.heap[src].children)

ObjectHas(m, obj, name) == \E i \in 1..Len(m.heap[obj].children) : m.heap[obj].children[i].first = name

GetCount(m, id) == IF IsValue(m, id) THEN 0 ELSE Len(m.heap[id].children)

\* the outcome of a call that returns v / that throws e (value is then unused)
Returned(v) == [throws |-> "none", value |-> v]
Thrown(e, unused) == [throws |-> e, value |-> unused]

\* Get that returns the last entry of the name
ObjectGet_Last(m, obj, name) ==
  LET kids == m.heap[obj].children
      hits == {i \in 1..Len(kids) : kids[i].first = name}
  IN  IF hits = {} THEN Thrown("NotFoundException", 0)
      ELSE Returned(kids[CHOOSE i \in hits : \A j \in hits : j <= i].second)

ObjectGet(m, obj, name) ==
  LET kids == m.heap[obj].children
      k    == FirstNamed(kids, name)
  IN  IF k = 0 THEN Thrown("NotFoundException", 0) ELSE Returned(kids[k].second)

ArrayAdd(m, arr, node) ==
  LET r == GetCopy(m, node)
  IN  SetChildren(r.mem, arr, Append(r.mem.heap[arr].children, r.id))

ArrayRemove(m, arr, index) ==
  LET kids == m.heap[arr].children
  IN  IF index < Len(kids)
      THEN SetChildren(DeleteNode(m, kids[index + 1]), arr, Erase(kids, index + 1))
      ELSE m

ArrayGet(m, arr, index) ==
  IF index < Len(m.heap[arr].children) THEN Returned(m.heap[arr].children[index + 1])
  ELSE Thrown("NotFoundException", 0)

\* the tree below a pointer as a value: kind, payload and the entries in order
\* (an Array entry has the empty name); a pointer that is not live is "dangling"
RECURSIVE Tree(_, _)
Tree(m, id) ==
  IF id \notin Live(m)
  THEN [type |-> "dangling", vtype |-> "none", valueStr |-> <<>>, entries |-> <<>>]
  ELSE LET node == m.heap[id]
       IN  [type |-> node.type, vtype |-> node.vtype, valueStr |-> node.valueStr,
            entries |-> [i \in 1..Len(node.children) |->
                          [name |-> IF node.type = "T_OBJECT" THEN node.children[i].first ELSE <<>>,
                           node |-> Tree(m, ChildPtrs(node)[i])]]]

\* the pointers of the subtree of a live node, the node included
RECURSIVE Subtree(_, _)
Subtree(m, id) ==
  IF id \notin Live(m) THEN {id}
  ELSE {id} \cup UNION {Subtree(m, ChildPtrs(m.heap[id])[i]) : i \in 1..Len(m.heap[id].children)}

\* ----------------------------------------------------------- value accessors
IsDigit(c) == \E i \in 1..10 : Digits[i] = c
DigitVal(c) == (CHOOSE i \in 1..10 : Digits[i] = c) - 1

INT_MAX == 2147483647

IsSpaceChar(c) == c \in {SPC, TAB, NL, CR, FF}

RECURSIVE SkipSpace(_, _)
SkipSpace(str, i) == IF i <= Len(str) /\ IsSpaceChar(str[i]) THEN SkipSpace(str, i + 1) ELSE i

RECURSIVE DigitRun(_, _)
DigitRun(str, i) == IF i <= Len(str) /\ IsDigit(str[i]) THEN <<str[i]>> \o DigitRun(str, i + 1) ELSE <<>>

RECURSIVE DigitsValue(_, _)
DigitsValue(ds, n) == IF n = 0 THEN 0 ELSE DigitsValue(ds, n - 1) * 10 + DigitVal(ds[n])

\* std::stringstream(valueStr) >> int: leading whitespace, a sign, digits;
\* no digit read leaves 0, an out-of-range value is clamped
StreamToInt(str) ==
  LET i0  == SkipSpace(str, 1)
      neg == i0 <= Len(str) /\ str[i0] = "-"
      i1  == IF i0 <= Len(str) /\ str[i0] \in {"-", "+"} THEN i0 + 1 ELSE i0
      ds  == DigitRun(str, i1)
      v   == DigitsValue(ds, Len(ds))
  IN  IF ds = <<>> THEN 0
      ELSE IF neg THEN (IF v > INT_MAX + 1 THEN -(INT_MAX + 1) ELSE -v)
      ELSE IF v > INT_MAX THEN INT_MAX ELSE v

\* std::stringstream(valueStr) >> float / double: sign, digits, '.', digits.
\* The value is num / 10^scale; exponents and rounding are not represented.
StreamToReal(str) ==
  LET i0  == SkipSpace(str, 1)
      neg == i0 <= Len(str) /\ str[i0] = "-"
      i1  == IF i0 <= Len(str) /\ str[i0] \in {"-", "+"} THEN i0 + 1 ELSE i0
      ds  == DigitRun(str, i1)
      i2  == i1 + Len(ds)
      fs  == IF i2 <= Len(str) /\ str[i2] = "." THEN DigitRun(str, i2 + 1) ELSE <<>>
      digs == ds \o fs
      v   == DigitsValue(digs, Len(digs))
  IN  IF digs = <<>> THEN [num |-> 0, scale |-> 0]
      ELSE [num |-> IF neg THEN -v ELSE v, scale |-> Len(fs)]

\* Node::ToString .. Node::ToBool throw; Value overrides them
ToString(m, id) ==
  IF ~IsValue(m, id) THEN Thrown("TypeException", <<>>)
  ELSE IF IsNull(m, id) THEN Returned(<<"n", "u", "l", "l">>) ELSE Returned(m.heap[id].valueStr)

\* ToInt without the throwing base implementation
ToInt_NoThrow(m, id) ==
  IF IsNumber(m, id) THEN Returned(StreamToInt(m.heap[id].valueStr)) ELSE Returned(0)

ToInt(m, id) ==
  IF ~IsValue(m, id) THEN Thrown("TypeException", 0)
  ELSE IF IsNumber(m, id) THEN Returned(StreamToInt(m.heap[id].valueStr)) ELSE Returned(0)

ToFloat(m, id) ==
  IF ~IsValue(m, id) THEN Thrown("TypeException", [num |-> 0, scale |-> 0])
  ELSE IF IsNumber(m, id) THEN Returned(StreamToReal(m.heap[id].valueStr))
  ELSE Returned([num |-> 0, scale |-> 0])

ToDouble(m, id) ==
  IF ~IsValue(m, id) THEN Thrown("TypeException", [num |-> 0, scale |-> 0])
  ELSE IF IsNumber(m, id) THEN Returned(StreamToReal(m.heap[id].valueStr))
  ELSE Returned([num |-> 0, scale |-> 0])

ToBool(m, id) ==
  IF ~IsValue(m, id) THEN Thrown("TypeException", FALSE)
  ELSE IF IsBool(m, id) THEN Returned(m.heap[id].valueStr = <<"t", "r", "u", "e">>) ELSE Returned(FALSE)

\* --------------------------------------------------------------------- writer
\* a pretty preset that indents with spaces
StandardFormat_Spaces == [newline |-> TRUE, spacing |-> TRUE, useTabs |-> FALSE, indentSize |-> 1]

StandardFormat == [newline |-> TRUE, spacing |-> TRUE, useTabs |-> TRUE, indentSize |-> 1]
NoFormat == [newline |-> FALSE, spacing |-> FALSE, useTabs |-> FALSE, indentSize |-> 0]

\* FormatInterpreter::SetFormat computes the three members
SetFormat(format) ==
  LET sp == IF format.spacing THEN <<SPC>> ELSE <<>>
  IN  [format |-> format,
       indentationChar |-> IF format.useTabs THEN TAB ELSE SPC,
       spacing |-> sp,
       newline |-> IF format.newline THEN <<NL>> ELSE sp]

\* an indentation that does not grow with the level
GetIndentation_Flat(fi, level) ==
  IF fi.format.newline THEN [i \in 1..fi.format.indentSize |-> fi.indentationChar] ELSE <<>>

GetIndentation(fi, level) ==
  IF fi.format.newline THEN [i \in 1..(fi.format.indentSize * level) |-> fi.indentationChar] ELSE <<>>

GetNewline(fi) == fi.newline
GetSpacing(fi) == fi.spacing

\* a String written without escaping
writeValue_Raw(m, id) ==
  IF IsString(m, id) THEN <<DQ>> \o ToString(m, id).value \o <<DQ>> ELSE ToString(m, id).value

writeValue(m, id) ==
  IF IsString(m, id) THEN <<DQ>> \o EscapeString(ToString(m, id).value) \o <<DQ>> ELSE ToString(m, id).value

RECURSIVE writeNode(_, _, _, _)
RECURSIVE writeObject(_, _, _, _, _)
RECURSIVE writeArray(_, _, _, _, _)

\* the loop of writeObject from entry k on
writeObject(m, fi, id, level, k) ==
  LET kids == m.heap[id].children
  IN  IF k > Len(kids) THEN GetNewline(fi) \o GetIndentation(fi, level) \o <<"}">>
      ELSE (IF k # 1 THEN <<",">> \o GetNewline(fi) ELSE <<>>)
           \o GetIndentation(fi, level + 1) \o <<DQ>> \o kids[k].first \o <<DQ>> \o <<":">> \o GetSpacing(fi)
           \o writeNode(m, fi, kids[k].second, level + 1)
           \o writeObject(m, fi, id, level, k + 1)

writeArray(m, fi, id, level, k) ==
  LET kids == m.heap[id].children
  IN  IF k > Len(kids) THEN GetNewline(fi) \o GetIndentation(fi, level) \o <<"]">>
      ELSE (IF k # 1 THEN <<",">> \o GetNewline(fi) ELSE <<>>)
           \o GetIndentation(fi, level + 1)
           \o writeNode(m, fi, kids[k], level + 1)
           \o writeArray(m, fi, id, level, k + 1)

writeNode(m, fi, id, level) ==
  CASE m.heap[id].type = "T_OBJECT" -> <<"{">> \o GetNewline(fi) \o writeObject(m, fi, id, level, 1)
    [] m.heap[id].type = "T_ARRAY"  -> <<"[">> \o GetNewline(fi) \o writeArray(m, fi, id, level, 1)
    [] m.heap[id].type = "T_VALUE"  -> writeValue(m, id)

\* Writer::Writer(root, format) followed by Writer::Write()
Write(m, root, format) == writeNode(m, SetFormat(format), root, 0)

\* --------------------------------------------------------------------- parser
IsWhitespace(c) == c = NL \/ c = SPC \/ c = TAB \/ c = CR \/ c = FF
IsNumberChar(c) == IsDigit(c) \/ c = "." \/ c = "-"

Lower == <<"a", "b", "c", "d", "e", "f", "g", "h", "i", "j", "k", "l", "m",
           "n", "o", "p", "q", "r", "s", "t", "u", "v", "w", "x", "y", "z">>
Upper == <<"A", "B", "C", "D", "E", "F", "G", "H", "I", "J", "K", "L", "M",
           "N", "O", "P", "Q", "R", "S", "T", "U", "V", "W", "X", "Y", "Z">>
toupper(c) == IF \E i \in 1..26 : Lower[i] = c THEN Upper[CHOOSE i \in 1..26 : Lower[i] = c] ELSE c

\* What a build makes of the undefined operations of the parser.
\*  upper: std::transform writes through upperValue.begin() after reserve(),
\*         beyond size(): the string still has size 0 ("unsized"), or the
\*         comparison sees the written characters ("written"), or a checked
\*         iterator stops the program ("trap").
\*  front: data.front() / data.pop() on an empty queue: the program stops
\*         ("trap") or goes on with the payload found there.
GarbagePayloads ==
  {[first |-> vt, second |-> str] : vt \in {"VT_NULL", "VT_STRING", "VT_NUMBER", "VT_BOOL"},
                                    str \in {<<"?">>}}
UpperOutcomes == {"unsized", "written", "trap"}
FrontOutcomes ==
  {[trap |-> TRUE, first |-> "VT_NULL", second |-> <<>>]}
    \cup {[trap |-> FALSE, first |-> g.first, second |-> g.second] : g \in GarbagePayloads}
Builds == [upper : UpperOutcomes, front : FrontOutcomes]

\* Parser::Parser(root) / Parser::Parser(root, json): the members, and the
\* locals of tokenize() and assemble() of the call in progress
NewParser(root, text) ==
  [json |-> text, jsonSize |-> Len(text), tokens |-> <<>>, data |-> <<>>, cursor |-> 0,
   root |-> root, error |-> <<>>,
   token |-> "T_UNKNOWN", valueBuffer |-> <<>>, nodeStack |-> <<>>, name |-> <<>>,
   pc |-> "idle", success |-> FALSE]

SetJson(p, text) == [p EXCEPT !.json = text, !.jsonSize = Len(text)]

\* json.at(i), i counted from 0
At(p, i) == p.json[i + 1]

peek(p) == IF p.cursor < p.jsonSize - 1 THEN At(p, p.cursor + 1) ELSE NUL

RECURSIVE SkipTo(_, _, _)
SkipTo(p, i, c) == IF i < p.jsonSize /\ At(p, i) # c THEN SkipTo(p, i + 1, c) ELSE i

\* the new cursor
jumpToNext(p, c) == SkipTo(p, p.cursor + 1, c)

RECURSIVE CommentEnd(_, _, _)
CommentEnd(p, i, c1) ==
  IF i >= p.jsonSize THEN i
  ELSE IF c1 = "*" /\ At(p, i) = "/" THEN i
  ELSE CommentEnd(p, i + 1, At(p, i))

jumpToCommentEnd(p) == CommentEnd(p, p.cursor + 1, NUL)

RECURSIVE StringEnd(_, _, _, _)
StringEnd(p, i, c1, str) ==
  IF i >= p.jsonSize THEN [cursor |-> i, str |-> str]
  ELSE IF c1 # BSL /\ At(p, i) = DQ THEN [cursor |-> i, str |-> str]
  ELSE StringEnd(p, i + 1, At(p, i), Append(str, At(p, i)))

readString(p) ==
  IF At(p, p.cursor) # DQ THEN p
  ELSE LET r == StringEnd(p, p.cursor + 1, NUL, <<>>)
       IN  [p EXCEPT !.cursor = r.cursor,
                     !.data = Append(p.data, [first |-> "VT_STRING", second |-> r.str])]

\* [ok, data]: the payload pushed; upper is what upperValue compares as
interpretValue(data, value, outcome) ==
  LET upperValue == IF outcome = "written" THEN [i \in 1..Len(value) |-> toupper(value[i])] ELSE <<>>
  IN  IF upperValue = <<"N", "U", "L", "L">>
      THEN [ok |-> TRUE, data |-> Append(data, [first |-> "VT_NULL", second |-> <<>>])]
      ELSE IF upperValue = <<"T", "R", "U", "E">>
      THEN [ok |-> TRUE, data |-> Append(data, [first |-> "VT_BOOL", second |-> <<"t", "r", "u", "e">>])]
      ELSE IF upperValue = <<"F", "A", "L", "S", "E">>
      THEN [ok |-> TRUE, data |-> Append(data, [first |-> "VT_BOOL", second |-> <<"f", "a", "l", "s", "e">>])]
      ELSE IF \A i \in 1..Len(value) : IsNumberChar(value[i])
      THEN [ok |-> TRUE, data |-> Append(data, [first |-> "VT_NUMBER", second |-> value])]
      ELSE [ok |-> FALSE, data |-> data]

\* the switch of tokenize(): [p, saveBuffer]
tokenizeSwitch(p, c) ==
  CASE c = "{" -> [p |-> [p EXCEPT !.token = "T_OBJ_BEGIN"], saveBuffer |-> TRUE]
    [] c = "}" -> [p |-> [p EXCEPT !.token = "T_OBJ_END"], saveBuffer |-> TRUE]
    [] c = "[" -> [p |-> [p EXCEPT !.token = "T_ARRAY_BEGIN"], saveBuffer |-> TRUE]
    [] c = "]" -> [p |-> [p EXCEPT !.token = "T_ARRAY_END"], saveBuffer |-> TRUE]
    [] c = "," -> [p |-> [p EXCEPT !.token = "T_SEPARATOR_NODE"], saveBuffer |-> TRUE]
    [] c = ":" -> [p |-> [p EXCEPT !.token = "T_SEPARATOR_NAME"], saveBuffer |-> TRUE]
    [] c = DQ  -> [p |-> readString([p EXCEPT !.token = "T_VALUE"]), saveBuffer |-> TRUE]
    [] c = "/" -> [p |-> IF peek(p) = "*" THEN [p EXCEPT !.cursor = jumpToCommentEnd(p)]
                         ELSE IF peek(p) = "/" THEN [p EXCEPT !.cursor = jumpToNext(p, NL)]
                         ELSE p,
                   saveBuffer |-> TRUE]
    [] OTHER   -> [p |-> [p EXCEPT !.valueBuffer = Append(p.valueBuffer, c)], saveBuffer |-> FALSE]

\* one iteration of the for loop of tokenize(), ++cursor included
tokenizeStep(p, build) ==
  LET c == At(p, p.cursor)
  IN  IF IsWhitespace(c) THEN [p EXCEPT !.cursor = p.cursor + 1]
      ELSE
        LET sw == tokenizeSwitch(p, c)
            p1 == sw.p
            flush == (sw.saveBuffer \/ p1.cursor = p1.jsonSize - 1) /\ p1.valueBuffer # <<>>
            iv == interpretValue(p1.data, p1.valueBuffer, build.upper)
            p2 == IF ~flush THEN p1
                  ELSE IF iv.ok
                  THEN [p1 EXCEPT !.data = iv.data, !.tokens = Append(p1.tokens, "T_VALUE"),
                                  !.valueBuffer = <<>>]
                  ELSE [p1 EXCEPT !.data = Append(p1.data, [first |-> "VT_STRING", second |-> p1.valueBuffer]),
                                  !.tokens = Append(p1.tokens, "T_UNKNOWN"),
                                  !.valueBuffer = <<>>]
            p3 == IF sw.saveBuffer THEN [p2 EXCEPT !.tokens = Append(p2.tokens, p2.token)] ELSE p2
        IN  IF flush /\ build.upper = "trap" THEN [p1 EXCEPT !.pc = "trapped"]
            ELSE [p3 EXCEPT !.cursor = p3.cursor + 1]

Top(stack) == stack[Len(stack)]
Pop(stack) == SubSeq(stack, 1, Len(stack) - 1)

\* return false without a message
Fail_NoMessage(p, m, msg) == [p |-> [p EXCEPT !.pc = "done", !.success = FALSE], m |-> m]

\* error = msg; return false
Fail(p, m, msg) == [p |-> [p EXCEPT !.error = msg, !.pc = "done", !.success = FALSE], m |-> m]
Trap(p, m) == [p |-> [p EXCEPT !.pc = "trapped"], m |-> m]

\* data.front() and data.pop(); on an empty queue what the build makes of it
Front(data, build) ==
  IF data # <<>> THEN Head(data) ELSE [first |-> build.front.first, second |-> build.front.second]
PopData(data) == IF data # <<>> THEN Tail(data) ELSE data

\* case T_UNKNOWN
asmUnknown(p, m, build) ==
  IF p.data = <<>> /\ build.front.trap THEN Trap(p, m)
  ELSE Fail([p EXCEPT !.data = PopData(p.data)], m,
            <<"Unknown token: ">> \o Front(p.data, build).second)

\* the BEGIN cases without the test of the root's kind
asmBegin_NoRootCheck(p, m, type) ==
  LET nid == IF p.nodeStack = <<>> THEN p.root ELSE NewId(m)
  IN  [p |-> [p EXCEPT !.nodeStack = Append(p.nodeStack, [first |-> p.name, second |-> nid]),
                       !.name = <<>>],
       m |-> IF p.nodeStack = <<>> THEN m
             ELSE Store(m, nid, IF type = "T_OBJECT" THEN ObjectNode(<<>>) ELSE ArrayNode(<<>>))]

\* the BEGIN cases that empty the root before making it a frame
asmBegin_ClearRoot(p, m, type) ==
  IF p.nodeStack = <<>>
  THEN IF m.heap[p.root].type # type
       THEN Fail(p, m, IF type = "T_OBJECT" THEN <<"The given root node is not an object">>
                       ELSE <<"The given root node is not an array">>)
       ELSE [p |-> [p EXCEPT !.nodeStack = Append(p.nodeStack, [first |-> p.name, second |-> p.root]),
                             !.name = <<>>],
             m |-> Clear(m, p.root)]
  ELSE LET nid == NewId(m)
       IN  [p |-> [p EXCEPT !.nodeStack = Append(p.nodeStack, [first |-> p.name, second |-> nid]),
                            !.name = <<>>],
            m |-> Store(m, nid, IF type = "T_OBJECT" THEN ObjectNode(<<>>) ELSE ArrayNode(<<>>))]

\* the BEGIN cases that push the frame without the pending name
asmBegin_EmptyName(p, m, type) ==
  IF p.nodeStack = <<>>
  THEN IF m.heap[p.root].type # type
       THEN Fail(p, m, IF type = "T_OBJECT" THEN <<"The given root node is not an object">>
                       ELSE <<"The given root node is not an array">>)
       ELSE [p |-> [p EXCEPT !.nodeStack = Append(p.nodeStack, [first |-> <<>>, second |-> p.root]),
                             !.name = <<>>],
             m |-> m]
  ELSE LET nid == NewId(m)
       IN  [p |-> [p EXCEPT !.nodeStack = Append(p.nodeStack, [first |-> <<>>, second |-> nid]),
                            !.name = <<>>],
            m |-> Store(m, nid, IF type = "T_OBJECT" THEN ObjectNode(<<>>) ELSE ArrayNode(<<>>))]

\* the BEGIN cases that do not make the root a frame
asmBegin_NoPush(p, m, type) ==
  IF p.nodeStack = <<>>
  THEN IF m.heap[p.root].type # type
       THEN Fail(p, m, IF type = "T_OBJECT" THEN <<"The given root node is not an object">>
                       ELSE <<"The given root node is not an array">>)
       ELSE [p |-> [p EXCEPT !.name = <<>>], m |-> m]
  ELSE LET nid == NewId(m)
       IN  [p |-> [p EXCEPT !.nodeStack = Append(p.nodeStack, [first |-> p.name, second |-> nid]),
                            !.name = <<>>],
            m |-> Store(m, nid, IF type = "T_OBJECT" THEN ObjectNode(<<>>) ELSE ArrayNode(<<>>))]

\* case T_OBJ_BEGIN (type = "T_OBJECT") and case T_ARRAY_BEGIN (type = "T_ARRAY")
asmBegin(p, m, type) ==
  IF p.nodeStack = <<>>
  THEN IF m.heap[p.root].type # type
       THEN Fail(p, m, IF type = "T_OBJECT" THEN <<"The given root node is not an object">>
                       ELSE <<"The given root node is not an array">>)
       ELSE [p |-> [p EXCEPT !.nodeStack = Append(p.nodeStack, [first |-> p.name, second |-> p.root]),
                             !.name = <<>>],
             m |-> m]
  ELSE LET nid == NewId(m)
       IN  [p |-> [p EXCEPT !.nodeStack = Append(p.nodeStack, [first |-> p.name, second |-> nid]),
                            !.name = <<>>],
            m |-> Store(m, nid, IF type = "T_OBJECT" THEN ObjectNode(<<>>) ELSE ArrayNode(<<>>))]

\* the END cases without the comparison of the frame's kind with the token
asmEnd_NoKindCheck(p, m, token) ==
  IF p.nodeStack = <<>> THEN Fail(p, m, <<"Found end of object or array without beginning">>)
  ELSE LET name  == Top(p.nodeStack).first
           node  == Top(p.nodeStack).second
           stack == Pop(p.nodeStack)
           p1    == [p EXCEPT !.nodeStack = stack]
       IN  IF stack = <<>> THEN [p |-> p1, m |-> m]
           ELSE IF IsObject(m, Top(stack).second)
           THEN [p |-> p1, m |-> DeleteNode(ObjectAdd(m, Top(stack).second, name, node), node)]
           ELSE IF IsArray(m, Top(stack).second)
           THEN [p |-> p1, m |-> DeleteNode(ArrayAdd(m, Top(stack).second, node), node)]
           ELSE Fail(p1, m, <<"Can only add elements to objects and arrays">>)

\* the END cases that pop the frame and attach nothing
asmEnd_NoAttach(p, m, token) ==
  IF p.nodeStack = <<>> THEN Fail(p, m, <<"Found end of object or array without beginning">>)
  ELSE [p |-> [p EXCEPT !.nodeStack = Pop(p.nodeStack)], m |-> m]

\* case T_OBJ_END: case T_ARRAY_END
asmEnd(p, m, token) ==
  IF p.nodeStack = <<>> THEN Fail(p, m, <<"Found end of object or array without beginning">>)
  ELSE IF token = "T_OBJ_END" /\ ~IsObject(m, Top(p.nodeStack).second)
  THEN Fail(p, m, <<"Mismatched end and beginning of object">>)
  ELSE IF token = "T_ARRAY_END" /\ ~IsArray(m, Top(p.nodeStack).second)
  THEN Fail(p, m, <<"Mismatched end and beginning of array">>)
  ELSE LET name  == Top(p.nodeStack).first
           node  == Top(p.nodeStack).second
           stack == Pop(p.nodeStack)
           p1    == [p EXCEPT !.nodeStack = stack]
       IN  IF stack = <<>> THEN [p |-> p1, m |-> m]
           ELSE IF IsObject(m, Top(stack).second)
           THEN [p |-> p1, m |-> DeleteNode(ObjectAdd(m, Top(stack).second, name, node), node)]
           ELSE IF IsArray(m, Top(stack).second)
           THEN [p |-> p1, m |-> DeleteNode(ArrayAdd(m, Top(stack).second, node), node)]
           ELSE Fail(p1, m, <<"Can only add elements to objects and arrays">>)

\* case T_VALUE that does not make a Value root a frame
asmValue_NoPush(p, m, build) ==
  IF p.tokens # <<>> /\ Head(p.tokens) = "T_SEPARATOR_NAME"
  THEN LET p1 == [p EXCEPT !.tokens = Tail(p.tokens)]
       IN  IF p1.data = <<>> /\ build.front.trap THEN Trap(p1, m)
           ELSE IF Front(p1.data, build).first # "VT_STRING"
           THEN Fail(p1, m, <<"A name has to be a string">>)
           ELSE [p |-> [p1 EXCEPT !.name = Front(p1.data, build).second, !.data = PopData(p1.data)],
                 m |-> m]
  ELSE IF p.nodeStack = <<>> /\ ~IsValue(m, p.root)
  THEN Fail(p, m, <<"The given root node is not a value">>)
  ELSE IF p.data = <<>> /\ build.front.trap THEN Trap(p, m)
  ELSE LET onRoot == p.nodeStack = <<>>
           node == IF onRoot THEN p.root ELSE NewId(m)
           d    == Front(p.data, build)
           v    == IF d.first = "VT_STRING" THEN SetString(d.second) ELSE SetTyped(d.first, d.second)
           m1   == Store(m, node, v)
           p1   == [p EXCEPT !.data = PopData(p.data), !.name = <<>>]
       IN  IF ~onRoot
           THEN LET top == Top(p.nodeStack).second
                    m2  == IF IsObject(m1, top) THEN ObjectAdd(m1, top, p.name, node)
                           ELSE IF IsArray(m1, top) THEN ArrayAdd(m1, top, node)
                           ELSE m1
                IN  [p |-> p1, m |-> DeleteNode(m2, node)]
           ELSE [p |-> p1, m |-> m1]

\* case T_VALUE without name.clear()
asmValue_KeepName(p, m, build) ==
  IF p.tokens # <<>> /\ Head(p.tokens) = "T_SEPARATOR_NAME"
  THEN LET p1 == [p EXCEPT !.tokens = Tail(p.tokens)]
       IN  IF p1.data = <<>> /\ build.front.trap THEN Trap(p1, m)
           ELSE IF Front(p1.data, build).first # "VT_STRING"
           THEN Fail(p1, m, <<"A name has to be a string">>)
           ELSE [p |-> [p1 EXCEPT !.name = Front(p1.data, build).second, !.data = PopData(p1.data)],
                 m |-> m]
  ELSE IF p.nodeStack = <<>> /\ ~IsValue(m, p.root)
  THEN Fail(p, m, <<"The given root node is not a value">>)
  ELSE IF p.data = <<>> /\ build.front.trap THEN Trap(p, m)
  ELSE LET onRoot == p.nodeStack = <<>>
           node == IF onRoot THEN p.root ELSE NewId(m)
           d    == Front(p.data, build)
           v    == IF d.first = "VT_STRING" THEN SetString(d.second) ELSE SetTyped(d.first, d.second)
           m1   == Store(m, node, v)
           p1   == [p EXCEPT !.data = PopData(p.data)]
       IN  IF ~onRoot
           THEN LET top == Top(p.nodeStack).second
                    m2  == IF IsObject(m1, top) THEN ObjectAdd(m1, top, p.name, node)
                           ELSE IF IsArray(m1, top) THEN ArrayAdd(m1, top, node)
                           ELSE m1
                IN  [p |-> p1, m |-> DeleteNode(m2, node)]
           ELSE [p |-> [p1 EXCEPT !.nodeStack = Append(p.nodeStack, [first |-> p.name, second |-> node])],
                 m |-> m1]

\* case T_VALUE
asmValue(p, m, build) ==
  IF p.tokens # <<>> /\ Head(p.tokens) = "T_SEPARATOR_NAME"
  THEN LET p1 == [p EXCEPT !.tokens = Tail(p.tokens)]
       IN  IF p1.data = <<>> /\ build.front.trap THEN Trap(p1, m)
           ELSE IF Front(p1.data, build).first # "VT_STRING"
           THEN Fail(p1, m, <<"A name has to be a string">>)
           ELSE [p |-> [p1 EXCEPT !.name = Front(p1.data, build).second, !.data = PopData(p1.data)],
                 m |-> m]
  ELSE IF p.nodeStack = <<>> /\ ~IsValue(m, p.root)
  THEN Fail(p, m, <<"The given root node is not a value">>)
  ELSE IF p.data = <<>> /\ build.front.trap THEN Trap(p, m)
  ELSE LET onRoot == p.nodeStack = <<>>
           node == IF onRoot THEN p.root ELSE NewId(m)
           d    == Front(p.data, build)
           v    == IF d.first = "VT_STRING" THEN SetString(d.second) ELSE SetTyped(d.first, d.second)
           m1   == Store(m, node, v)
           p1   == [p EXCEPT !.data = PopData(p.data), !.name = <<>>]
       IN  IF ~onRoot
           THEN LET top == Top(p.nodeStack).second
                    m2  == IF IsObject(m1, top) THEN ObjectAdd(m1, top, p.name, node)
                           ELSE IF IsArray(m1, top) THEN ArrayAdd(m1, top, node)
                           ELSE m1
                IN  [p |-> p1, m |-> DeleteNode(m2, node)]
           ELSE [p |-> [p1 EXCEPT !.nodeStack = Append(p.nodeStack, [first |-> p.name, second |-> node])],
                 m |-> m1]

\* an iteration that puts a separator token back at the end of the queue
assembleStep_Requeue(p, m, build) ==
  LET token == Head(p.tokens)
      p1    == [p EXCEPT !.tokens = Tail(p.tokens)]
  IN  CASE token = "T_UNKNOWN" -> asmUnknown(p1, m, build)
        [] token = "T_OBJ_BEGIN" -> asmBegin(p1, m, "T_OBJECT")
        [] token = "T_ARRAY_BEGIN" -> asmBegin(p1, m, "T_ARRAY")
        [] token \in {"T_OBJ_END", "T_ARRAY_END"} -> asmEnd(p1, m, token)
        [] token = "T_VALUE" -> asmValue(p1, m, build)
        [] token \in {"T_SEPARATOR_NAME", "T_SEPARATOR_NODE"} ->
             [p |-> [p1 EXCEPT !.tokens = Append(p1.tokens, token)], m |-> m]

\* one iteration of the while loop of assemble(): tokens is not empty
assembleStep(p, m, build) ==
  LET token == Head(p.tokens)
      p1    == [p EXCEPT !.tokens = Tail(p.tokens)]
  IN  CASE token = "T_UNKNOWN" -> asmUnknown(p1, m, build)
        [] token = "T_OBJ_BEGIN" -> asmBegin(p1, m, "T_OBJECT")
        [] token = "T_ARRAY_BEGIN" -> asmBegin(p1, m, "T_ARRAY")
        [] token \in {"T_OBJ_END", "T_ARRAY_END"} -> asmEnd(p1, m, token)
        [] token = "T_VALUE" -> asmValue(p1, m, build)
        [] token \in {"T_SEPARATOR_NAME", "T_SEPARATOR_NODE"} -> [p |-> p1, m |-> m]

\* Parse(): cursor = 0, then tokenize(), then assemble()
ParseBegin(p) ==
  [p EXCEPT !.cursor = 0, !.token = "T_UNKNOWN", !.valueBuffer = <<>>,
            !.nodeStack = <<>>, !.name = <<>>, !.pc = "tokenize", !.success = FALSE]

\* a call in progress whose assemble() fails when a container is still open
ParseStep_RequireClosed(p, m, build) ==
  CASE p.pc = "tokenize" ->
         IF p.cursor < p.jsonSize THEN [p |-> tokenizeStep(p, build), m |-> m]
         ELSE [p |-> [p EXCEPT !.pc = "assemble"], m |-> m]
    [] p.pc = "assemble" ->
         IF p.tokens # <<>> THEN assembleStep(p, m, build)
         ELSE IF p.nodeStack # <<>> THEN Fail(p, m, <<"Unexpected end of input">>)
         ELSE [p |-> [p EXCEPT !.pc = "done", !.success = TRUE], m |-> m]

\* const std::string &Parser::GetError() const
GetError(p) == p.error

\* one step of the call in progress
ParseStep(p, m, build) ==
  CASE p.pc = "tokenize" ->
         IF p.cursor < p.jsonSize THEN [p |-> tokenizeStep(p, build), m |-> m]
         ELSE [p |-> [p EXCEPT !.pc = "assemble"], m |-> m]
    [] p.pc = "assemble" ->
         IF p.tokens # <<>> THEN assembleStep(p, m, build)
         ELSE [p |-> [p EXCEPT !.pc = "done", !.success = TRUE], m |-> m]

RECURSIVE ParseRun(_, _, _)
ParseRun(p, m, build) ==
  IF p.pc \in {"done", "trapped"} THEN [p |-> p, m |-> m]
  ELSE LET r == ParseStep(p, m, build) IN ParseRun(r.p, r.m, build)

\* Parser parser(root, json); parser.Parse();
Parse(m, root, text, build) == ParseRun(ParseBegin(NewParser(root, text)), m, build)

\* ============================================================ state machines
VARIABLES
  mem,      \* the heap of nodes
  roots,    \* the nodes the client program holds itself (not children)
  lastOp,   \* the last call of the client and its arguments
  calls,    \* the number of calls the client has made
  parser,   \* the Parser object and the position of its Parse() call
  esc,      \* a string and what EscapeString / UnescapeString made of it
  cmp       \* two texts and the outcome of parsing each

vars == <<mem, roots, lastOp, calls, parser, esc, cmp>>

NoOp == [op |-> "none"]
NoParser == [pc |-> "none"]
NoEsc == [stage |-> "none"]
NoCmp == [stage |-> "none"]

\* ------------------------------------------------- EscapeString / UnescapeString
EscAlphabet == {BSL, SL, DQ, NL, TAB, BS, FF, CR, "a", "n"}
EscInputs == SeqsUpTo(EscAlphabet, MaxEscLen)

EscInit ==
  /\ mem = EmptyMem /\ roots = {} /\ lastOp = NoOp /\ calls = 0 /\ parser = NoParser /\ cmp = NoCmp
  /\ esc \in {[stage |-> "input", value |-> v] : v \in EscInputs}

EscapeCall ==
  /\ esc.stage = "input"
  /\ esc' = [stage |-> "escaped", value |-> esc.value, escaped |-> EscapeString(esc.value)]
  /\ UNCHANGED <<mem, roots, lastOp, calls, parser, cmp>>

UnescapeCall ==
  /\ esc.stage = "escaped"
  /\ esc' = [stage |-> "unescaped", value |-> esc.value, escaped |-> esc.escaped,
             unescaped |-> UnescapeString(esc.escaped)]
  /\ UNCHANGED <<mem, roots, lastOp, calls, parser, cmp>>

EscNext == EscapeCall \/ UnescapeCall

EscSpec == EscInit /\ [][EscNext]_vars

\* ------------------------------------------------------------------ Parse()
\* the texts of the specification's examples
ExampleTexts ==
  { <<"1", "2", "3">>, <<"1", "-", "2", ".", "3">>, <<"a", "b", "c">>,
    <<"t", "r", "u", "e">>, <<"f", "a", "l", "s", "e">>, <<"n", "u", "l", "l">>,
    <<"T", "r", "u", "e">>, <<"N", "U", "L", "L">>,
    <<"[", "1", ",", "2", "]">>,
    <<"{", DQ, "a", DQ, ":", "1", "}">>,
    <<"[", "a", "b", DQ, "d", DQ, "]">>,
    <<"{", DQ, "a", DQ, ":", "[", "]", "}">>,
    <<"{", DQ, "a", DQ, ":", "1", ",", "2", "}">>,
    <<"{", DQ, "a", DQ, ":", "{", DQ, "b", DQ, ":", "1", "}", "}">>,
    <<"{", DQ, "a", DQ, ":", "[", "1">>,
    <<"[", "1", DQ, "a", DQ, "]">> }

ParseAlphabet == {"{", "}", "[", "]", ",", ":", DQ, "/", "*", "1", "a", SPC}
Inputs == SeqsUpTo(ParseAlphabet, MaxLen) \cup ExampleTexts

\* a root as the caller constructs it: Object, Array or Value (null)
RootNodes == {ObjectNode(<<>>), ArrayNode(<<>>), SetNull}

ParseInit ==
  /\ roots = {1} /\ lastOp = NoOp /\ calls = 0 /\ esc = NoEsc /\ cmp = NoCmp
  /\ \E r \in RootNodes : mem = Store(EmptyMem, 1, r)
  /\ \E text \in Inputs : parser = NewParser(1, text)

\* bool Parser::Parse(), up to the call of tokenize()
ParseCall ==
  /\ parser.pc = "idle"
  /\ parser' = ParseBegin(parser)
  /\ UNCHANGED <<mem, roots, lastOp, calls, esc, cmp>>

\* one iteration of the loop of tokenize()
TokenizeIter ==
  /\ parser.pc = "tokenize" /\ parser.cursor < parser.jsonSize
  /\ \E build \in Builds : parser' = tokenizeStep(parser, build)
  /\ UNCHANGED <<mem, roots, lastOp, calls, esc, cmp>>

\* tokenize() returns, assemble() is entered
TokenizeReturn ==
  /\ parser.pc = "tokenize" /\ ~(parser.cursor < parser.jsonSize)
  /\ parser' = ParseStep(parser, mem, CHOOSE b \in Builds : TRUE).p
  /\ UNCHANGED <<mem, roots, lastOp, calls, esc, cmp>>

\* one iteration of the loop of assemble()
AssembleIter ==
  /\ parser.pc = "assemble" /\ parser.tokens # <<>>
  /\ \E build \in Builds :
       LET r == assembleStep(parser, mem, build)
       IN  parser' = r.p /\ mem' = r.m
  /\ UNCHANGED <<roots, lastOp, calls, esc, cmp>>

\* the loop of assemble() ends: return true
AssembleReturn ==
  /\ parser.pc = "assemble" /\ parser.tokens = <<>>
  /\ parser' = ParseStep(parser, mem, CHOOSE b \in Builds : TRUE).p
  /\ UNCHANGED <<mem, roots, lastOp, calls, esc, cmp>>

ParseNext == ParseCall \/ TokenizeIter \/ TokenizeReturn \/ AssembleIter \/ AssembleReturn

ParseSpec == ParseInit /\ [][ParseNext]_vars

\* the call runs on: a loop whose condition holds takes its next iteration
ParseFairSpec == ParseSpec /\ WF_vars(ParseNext)

\* ------------------------------------- Parse() into a root that holds entries
MaxPreloadLen == 2

\* root.Add(name, Value(...)): the temporary is copied in and destroyed
AddValue(m, id, name, v) ==
  LET tmp == NewId(m)
      m1  == Store(m, tmp, v)
  IN  DeleteNode(IF IsObject(m, id) THEN ObjectAdd(m1, id, name, tmp) ELSE ArrayAdd(m1, id, tmp), tmp)

PreloadedDocs ==
  { AddValue(Store(EmptyMem, 1, ObjectNode(<<>>)), 1, <<"a">>, SetInt(1)),
    AddValue(AddValue(Store(EmptyMem, 1, ObjectNode(<<>>)), 1, <<"a">>, SetInt(1)),
             1, <<"c">>, SetString(<<"x">>)),
    AddValue(Store(EmptyMem, 1, ArrayNode(<<>>)), 1, <<>>, SetInt(1)),
    AddValue(AddValue(Store(EmptyMem, 1, ArrayNode(<<>>)), 1, <<>>, SetInt(1)),
             1, <<>>, SetString(<<"x">>)) }

PreloadTexts ==
  SeqsUpTo(ParseAlphabet, MaxPreloadLen)
    \cup { <<"{", DQ, "b", DQ, ":", "2", "}">>, <<"[", "2", "]">>,
           <<"{", DQ, "a", DQ, ":", "2", "}">>, <<"[", "[", "]", ",", "2", "]">>,
           <<SPC, NL, TAB>> }

\* the root holds entries; Parser parser(root, text);
PreloadInit ==
  /\ roots = {1} /\ lastOp = NoOp /\ calls = 0 /\ esc = NoEsc
  /\ \E m \in PreloadedDocs : mem = m /\ cmp = [stage |-> "preloaded", before |-> Tree(m, 1)]
  /\ \E text \in PreloadTexts : parser = NewParser(1, text)

PreloadSpec == PreloadInit /\ [][ParseNext]_vars

\* ----------------------------------------------------- Node::DetermineType()
\* std::find_if(json.begin(), json.end(), IsWhitespace): the index (from 1) of
\* the first element the predicate accepts, Len + 1 for json.end()
FindIfWhitespace(json) ==
  Min({i \in 1..Len(json) : IsWhitespace(json[i])} \cup {Len(json) + 1})

DetermineType(json) ==
  LET jsonIt == FindIfWhitespace(json)
  IN  IF jsonIt = Len(json) + 1 THEN "T_VALUE"
      ELSE CASE json[jsonIt] = "{" -> "T_OBJECT"
             [] json[jsonIt] = "[" -> "T_ARRAY"
             [] OTHER -> "T_VALUE"

DetermineAlphabet == {"{", "[", "1", SPC, NL}

DetermineInit ==
  /\ mem = EmptyMem /\ roots = {} /\ lastOp = NoOp /\ calls = 0
  /\ parser = NoParser /\ esc = NoEsc
  /\ \E json \in SeqsUpTo(DetermineAlphabet, MaxLen) : cmp = [stage |-> "text", json |-> json]

\* Node::DetermineType(json)
DetermineTypeCall ==
  /\ cmp.stage = "text"
  /\ cmp' = [stage |-> "determined", json |-> cmp.json, type |-> DetermineType(cmp.json)]
  /\ UNCHANGED <<mem, roots, lastOp, calls, parser, esc>>

DetermineSpec == DetermineInit /\ [][DetermineTypeCall]_vars

\* ------------------------------------ Parse() of nested arrays, then Write()
Repeat(c, n) == [i \in 1..n |-> c]
NestedText(n) == Repeat("[", n) \o Repeat("]", n)

\* Array root; Parser parser(root, text);
NestInit ==
  /\ roots = {1} /\ lastOp = NoOp /\ calls = 0 /\ esc = NoEsc /\ cmp = NoCmp
  /\ mem = Store(EmptyMem, 1, ArrayNode(<<>>))
  /\ \E n \in 1..MaxDepth : parser = NewParser(1, NestedText(n))

\* Parse() has returned: Writer(root, NoFormat).Write()
WriteParsed ==
  /\ parser.pc = "done" /\ cmp = NoCmp
  /\ cmp' = [stage |-> "written", root |-> parser.root, format |-> NoFormat,
             text |-> Write(mem, parser.root, NoFormat)]
  /\ UNCHANGED <<mem, roots, lastOp, calls, parser, esc>>

NestNext ==
  \/ ParseCall \/ TokenizeIter \/ TokenizeReturn \/ AssembleIter \/ AssembleReturn
  \/ WriteParsed

NestSpec == NestInit /\ [][NestNext]_vars

\* ------------------------------------------------ the client of the tree API
Names == {<<"a">>, <<"b">>}

\* Value(), Value(std::string), Value(int), Value(bool)
Literals == {SetNull, SetString(<<SL>>), SetInt(12), SetBool(TRUE)}

Op(op, target, name, index, src, value) ==
  [op |-> op, target |-> target, name |-> name, index |-> index, src |-> src, value |-> value]

Objects == {id \in Live(mem) : IsObject(mem, id)}
Arrays  == {id \in Live(mem) : IsArray(mem, id)}
Values  == {id \in Live(mem) : IsValue(mem, id)}
Running == cmp = NoCmp /\ calls < MaxOps /\ ~mem.badFree

\* the client has constructed an empty Object and an empty Array
DocInit ==
  /\ mem = Store(Store(EmptyMem, 1, ObjectNode(<<>>)), 2, ArrayNode(<<>>))
  /\ roots = {1, 2} /\ lastOp = NoOp /\ calls = 0
  /\ parser = NoParser /\ esc = NoEsc /\ cmp = NoCmp

\* Object o;  Array a;  Value v(literal);
NewNode ==
  /\ Running /\ Cardinality(roots) < MaxRoots
  /\ \E node \in {ObjectNode(<<>>), ArrayNode(<<>>)} \cup Literals :
       /\ mem' = Store(mem, NewId(mem), node)
       /\ roots' = roots \cup {NewId(mem)}
       /\ lastOp' = Op("new", NewId(mem), <<>>, 0, 0, node)
  /\ calls' = calls + 1
  /\ UNCHANGED <<parser, esc, cmp>>

\* Object copy(other);  Array copy(other);  Value copy(other);
CopyConstruct ==
  /\ Running
  /\ \E src \in Live(mem) :
       /\ Cardinality(roots) < MaxRoots
       /\ LET r == GetCopy(mem, src)
          IN  /\ mem' = r.mem
              /\ roots' = roots \cup {r.id}
              /\ lastOp' = Op("copy", r.id, <<>>, 0, src, SetNull)
  /\ calls' = calls + 1
  /\ UNCHANGED <<parser, esc, cmp>>

\* the node goes out of scope
Destroy ==
  /\ Running
  /\ \E r \in roots :
       /\ mem' = DeleteNode(mem, r)
       /\ roots' = roots \ {r}
       /\ lastOp' = Op("delete", r, <<>>, 0, 0, SetNull)
  /\ calls' = calls + 1
  /\ UNCHANGED <<parser, esc, cmp>>

\* target.Add(name, node), node a node of the heap
ObjectAddCall ==
  /\ Running
  /\ \E target \in Objects, name \in Names, src \in Live(mem) :
       /\ mem' = ObjectAdd(mem, target, name, src)
       /\ lastOp' = Op("ObjectAdd", target, name, 0, src, SetNull)
  /\ calls' = calls + 1
  /\ UNCHANGED <<roots, parser, esc, cmp>>

ObjectRemoveCall ==
  /\ Running
  /\ \E target \in Objects, name \in Names :
       /\ mem' = ObjectRemove(mem, target, name)
       /\ lastOp' = Op("ObjectRemove", target, name, 0, 0, SetNull)
  /\ calls' = calls + 1
  /\ UNCHANGED <<roots, parser, esc, cmp>>

\* target.Clear() of an Object or an Array
ClearCall ==
  /\ Running
  /\ \E target \in Objects \cup Arrays :
       /\ mem' = Clear(mem, target)
       /\ lastOp' = Op("Clear", target, <<>>, 0, 0, SetNull)
  /\ calls' = calls + 1
  /\ UNCHANGED <<roots, parser, esc, cmp>>

ArrayAddCall ==
  /\ Running
  /\ \E target \in Arrays, src \in Live(mem) :
       /\ mem' = ArrayAdd(mem, target, src)
       /\ lastOp' = Op("ArrayAdd", target, <<>>, 0, src, SetNull)
  /\ calls' = calls + 1
  /\ UNCHANGED <<roots, parser, esc, cmp>>

ArrayRemoveCall ==
  /\ Running
  /\ \E target \in Arrays :
       \E index \in 0..Len(mem.heap[target].children) :
         /\ mem' = ArrayRemove(mem, target, index)
         /\ lastOp' = Op("ArrayRemove", target, <<>>, index, 0, SetNull)
  /\ calls' = calls + 1
  /\ UNCHANGED <<roots, parser, esc, cmp>>

\* target.Set(...) / target = ... of a Value
ValueSetCall ==
  /\ Running
  /\ \E target \in Values, v \in Literals :
       /\ mem' = Store(mem, target, v)
       /\ lastOp' = Op("Set", target, <<>>, 0, 0, v)
  /\ calls' = calls + 1
  /\ UNCHANGED <<roots, parser, esc, cmp>>

\* Writer(root, NoFormat).Write(); Parser(fresh, text).Parse();
\* Writer(fresh, NoFormat).Write(); the fresh root is of the kind of root
RoundTrip ==
  /\ Running
  /\ \E r \in roots, build \in Builds :
       LET first == Write(mem, r, NoFormat)
           fresh == NewId(mem)
           m0    == Store(mem, fresh, IF IsObject(mem, r) THEN ObjectNode(<<>>)
                                      ELSE IF IsArray(mem, r) THEN ArrayNode(<<>>) ELSE SetNull)
           res   == Parse(m0, fresh, first, build)
       IN  /\ cmp' = [stage |-> "roundtrip", root |-> r, first |-> first,
                      returned |-> res.p.pc = "done", success |-> res.p.success,
                      second |-> Write(res.m, fresh, NoFormat)]
           /\ lastOp' = Op("RoundTrip", r, <<>>, 0, 0, SetNull)
  /\ calls' = calls + 1
  /\ UNCHANGED <<mem, roots, parser, esc>>

DocNext ==
  \/ NewNode \/ CopyConstruct \/ Destroy
  \/ ObjectAddCall \/ ObjectRemoveCall \/ ClearCall
  \/ ArrayAddCall \/ ArrayRemoveCall
  \/ ValueSetCall

DocSpec == DocInit /\ [][DocNext]_vars

\* target = src; of two containers of one kind.  An assignment that would make
\* a node its own descendant is left out: the destructors do not terminate on
\* such a structure.
AssignCall ==
  /\ Running
  /\ \E target \in Objects \cup Arrays, src \in Live(mem) :
       /\ mem.heap[src].type = mem.heap[target].type
       /\ target \notin Subtree(mem, src) \ {src}
       /\ mem' = Assign(mem, target, src)
       /\ lastOp' = Op("assign", target, <<>>, 0, src, SetNull)
  /\ calls' = calls + 1
  /\ UNCHANGED <<roots, parser, esc, cmp>>

\* the client of DocSpec that also assigns containers
OwnNext ==
  \/ NewNode \/ CopyConstruct \/ Destroy
  \/ ObjectAddCall \/ ObjectRemoveCall \/ ClearCall
  \/ ArrayAddCall \/ ArrayRemoveCall
  \/ ValueSetCall
  \/ AssignCall

OwnSpec == DocInit /\ [][OwnNext]_vars

\* a tree built with the constructors and Add only, then written and parsed
RoundTripNext == NewNode \/ ObjectAddCall \/ ArrayAddCall \/ RoundTrip

RoundTripSpec == DocInit /\ [][RoundTripNext]_vars

\* ------------------------------------------------------------ Writer::Write()
\* the presets and other settings of the four members of Format
WriteFormats ==
  { NoFormat, StandardFormat,
    [newline |-> TRUE,  spacing |-> FALSE, useTabs |-> FALSE, indentSize |-> 2],
    [newline |-> FALSE, spacing |-> TRUE,  useTabs |-> TRUE,  indentSize |-> 1],
    [newline |-> TRUE,  spacing |-> TRUE,  useTabs |-> FALSE, indentSize |-> 1] }

\* Object o; Array a; Value v(1); o.Add("a", v);
ExampleDoc ==
  ObjectAdd(Store(Store(Store(EmptyMem, 1, ObjectNode(<<>>)), 2, ArrayNode(<<>>)), 3, SetInt(1)),
            1, <<"a">>, 3)

WriteInit ==
  /\ \/ mem = Store(Store(EmptyMem, 1, ObjectNode(<<>>)), 2, ArrayNode(<<>>)) /\ roots = {1, 2}
     \/ mem = ExampleDoc /\ roots = {1, 2, 3}
  /\ lastOp = NoOp /\ calls = 0
  /\ parser = NoParser /\ esc = NoEsc /\ cmp = NoCmp

\* Writer writer(root, format); writer.Write();
WriteCall ==
  /\ Running
  /\ \E r \in roots, format \in WriteFormats :
       /\ cmp' = [stage |-> "written", root |-> r, format |-> format, text |-> Write(mem, r, format)]
       /\ lastOp' = Op("Write", r, <<>>, 0, 0, SetNull)
  /\ calls' = calls + 1
  /\ UNCHANGED <<mem, roots, parser, esc>>

WriteNext == NewNode \/ ObjectAddCall \/ ArrayAddCall \/ WriteCall

WriteSpec == WriteInit /\ [][WriteNext]_vars

\* Value v(type, text); of every kind and text, then written
ValueTexts == SeqsUpTo(EscAlphabet, MaxEscLen)

ValueWriteInit ==
  /\ \E vt \in {"VT_NULL", "VT_STRING", "VT_NUMBER", "VT_BOOL"}, str \in ValueTexts :
       mem = Store(EmptyMem, 1, SetTyped(vt, str))
  /\ roots = {1} /\ lastOp = NoOp /\ calls = 0
  /\ parser = NoParser /\ esc = NoEsc /\ cmp = NoCmp

ValueWriteSpec == ValueWriteInit /\ [][WriteCall]_vars

\* ------------------------------------------- Parse() of a text with a comment
CommentAlphabet == {"{", "}", "[", "]", ",", ":", DQ, "1", "a", SPC}
CommentTexts ==
  SeqsUpTo(CommentAlphabet, MaxCommentLen)
    \cup { <<"{", DQ, "a", DQ, ":", SPC, "1", ",", SPC, DQ, "b", DQ, ":", SPC, "2", "}">> }
Comments == { <<"/", "*", "n", "*", "/">>, <<"/", "/", "n", NL>> }

Insert(text, pos, ins) == SubSeq(text, 1, pos) \o ins \o SubSeq(text, pos + 1, Len(text))

\* what the caller sees of Parse(): return value, message, tree of the root
Outcome(r) ==
  [returned |-> r.p.pc = "done", success |-> r.p.success, error |-> r.p.error,
   tree |-> Tree(r.m, r.p.root)]

CommentInit ==
  /\ mem = EmptyMem /\ roots = {} /\ lastOp = NoOp /\ calls = 0 /\ parser = NoParser /\ esc = NoEsc
  /\ \E text \in CommentTexts, c \in Comments, r \in RootNodes :
       \E pos \in 0..Len(text) :
         cmp = [stage |-> "input", text |-> text, pos |-> pos, comment |-> c, root |-> r]

\* Parse() of the text into a fresh root
ParsePlain ==
  /\ cmp.stage = "input"
  /\ \E build \in Builds :
       cmp' = [stage |-> "plain", text |-> cmp.text, pos |-> cmp.pos, comment |-> cmp.comment,
               root |-> cmp.root, build |-> build,
               plain |-> Outcome(Parse(Store(EmptyMem, 1, cmp.root), 1, cmp.text, build))]
  /\ UNCHANGED <<mem, roots, lastOp, calls, parser, esc>>

\* Parse() of the text with the comment at pos into a fresh root, same build
ParseCommented ==
  /\ cmp.stage = "plain"
  /\ cmp' = [stage |-> "both", text |-> cmp.text, pos |-> cmp.pos, comment |-> cmp.comment,
             root |-> cmp.root, build |-> cmp.build, plain |-> cmp.plain,
             commented |-> Outcome(Parse(Store(EmptyMem, 1, cmp.root), 1,
                                         Insert(cmp.text, cmp.pos, cmp.comment), cmp.build))]
  /\ UNCHANGED <<mem, roots, lastOp, calls, parser, esc>>

CommentNext == ParsePlain \/ ParseCommented

CommentSpec == CommentInit /\ [][CommentNext]_vars

\* ------------------------------------- two Parse() calls on one Parser object
ReparseAlphabet == {"{", "}", "[", "]", ",", ":", "1", "a"}
FirstTexts == SeqsUpTo(ReparseAlphabet, MaxFirstLen)
SecondTexts == { <<"{", "}">>, <<"[", "]">>, <<"1">>, <<"[", "1", "]">> }

\* Parser parser(root, first);
ReparseInit ==
  /\ roots = {1} /\ lastOp = NoOp /\ calls = 0 /\ esc = NoEsc
  /\ \E r \in RootNodes : mem = Store(EmptyMem, 1, r)
  /\ \E first \in FirstTexts : parser = NewParser(1, first)
  /\ \E second \in SecondTexts : cmp = [stage |-> "input", second |-> second]

\* parser.Parse();
FirstParse ==
  /\ cmp.stage = "input"
  /\ \E build \in Builds :
       LET r == ParseRun(ParseBegin(parser), mem, build)
       IN  /\ parser' = r.p /\ mem' = r.m
           /\ cmp' = [stage |-> "first", second |-> cmp.second, build |-> build]
  /\ UNCHANGED <<roots, lastOp, calls, esc>>

\* parser.SetJson(second); parser.Parse();  `fresh` is what a new Parser makes
\* of the same text and the same root
SecondParse ==
  /\ cmp.stage = "first" /\ parser.pc = "done"
  /\ LET r == ParseRun(ParseBegin(SetJson(parser, cmp.second)), mem, cmp.build)
     IN  /\ parser' = r.p /\ mem' = r.m
         /\ cmp' = [stage |-> "second", second |-> cmp.second, build |-> cmp.build,
                    again |-> Outcome(r),
                    fresh |-> Outcome(Parse(mem, parser.root, cmp.second, cmp.build))]
  /\ UNCHANGED <<roots, lastOp, calls, esc>>

ReparseNext == FirstParse \/ SecondParse

ReparseSpec == ReparseInit /\ [][ReparseNext]_vars

\* ==================================================================== claims
ParseDone == parser.pc = "done"
RootType == mem.heap[parser.root].type
UpperText(str) == [i \in 1..Len(str) |-> toupper(str[i])]
AllNumberChars(str) == \A i \in 1..Len(str) : IsNumberChar(str[i])
IsKeyword(str) == UpperText(str) \in {<<"N", "U", "L", "L">>, <<"T", "R", "U", "E">>, <<"F", "A", "L", "S", "E">>}

\* C4: a text that is null, true or false in any letter case, parsed into a
\* Value root, succeeds; the root is then Null, respectively Bool with the
\* text true / false.
C4_KeywordLiterals ==
  (ParseDone /\ RootType = "T_VALUE" /\ IsKeyword(parser.json)) =>
     /\ parser.success
     /\ UpperText(parser.json) = <<"N", "U", "L", "L">> => IsNull(mem, parser.root)
     /\ UpperText(parser.json) = <<"T", "R", "U", "E">> =>
          IsBool(mem, parser.root) /\ mem.heap[parser.root].valueStr = <<"t", "r", "u", "e">>
     /\ UpperText(parser.json) = <<"F", "A", "L", "S", "E">> =>
          IsBool(mem, parser.root) /\ mem.heap[parser.root].valueStr = <<"f", "a", "l", "s", "e">>

\* C5: a literal that is not a keyword is a Number, text verbatim, iff all its
\* characters are digits, '.' or '-' (123 into a Value root is a Number with
\* ToInt() = 123, 1-2.3 is one Number); a Parse that fails with
\* "Unknown token: " quotes the text of an Unknown literal.
C5_NumberOrUnknown ==
  /\ (ParseDone /\ RootType = "T_VALUE" /\ parser.json = <<"1", "2", "3">>) =>
        parser.success /\ IsNumber(mem, parser.root) /\ ToInt(mem, parser.root) = Returned(123)
  /\ (ParseDone /\ RootType = "T_VALUE" /\ parser.json = <<"1", "-", "2", ".", "3">>) =>
        parser.success /\ IsNumber(mem, parser.root)
          /\ mem.heap[parser.root].valueStr = <<"1", "-", "2", ".", "3">>
  /\ (ParseDone /\ parser.json = <<"a", "b", "c">>) =>
        ~parser.success /\ parser.error = <<"Unknown token: ", "a", "b", "c">>
  /\ (ParseDone /\ ~parser.success /\ Head(parser.error) = "Unknown token: ") =>
        LET quoted == Tail(parser.error)
        IN  quoted # <<>> /\ ~AllNumberChars(quoted)

\* C6: with an empty assembler stack, T_OBJ_BEGIN needs an Object root,
\* T_ARRAY_BEGIN an Array root and a terminal T_VALUE a Value root; with any
\* other root the step makes Parse return false with the message of that kind
\* and touches no node, with the right root the root becomes the frame.
C6_Wanted ==
  LET t == Head(parser.tokens)
  IN  IF t = "T_OBJ_BEGIN" THEN "T_OBJECT"
      ELSE IF t = "T_ARRAY_BEGIN" THEN "T_ARRAY"
      ELSE IF t = "T_VALUE" /\ ~(Len(parser.tokens) >= 2 /\ parser.tokens[2] = "T_SEPARATOR_NAME")
      THEN "T_VALUE"
      ELSE "any"

C6_Message(type) ==
  IF type = "T_OBJECT" THEN <<"The given root node is not an object">>
  ELSE IF type = "T_ARRAY" THEN <<"The given root node is not an array">>
  ELSE <<"The given root node is not a value">>

C6_Step ==
  (parser.pc = "assemble" /\ parser.tokens # <<>> /\ parser.nodeStack = <<>> /\ C6_Wanted # "any") =>
     IF RootType # C6_Wanted
     THEN /\ parser'.pc = "done" /\ ~parser'.success
          /\ parser'.error = C6_Message(C6_Wanted)
          /\ mem' = mem
     ELSE \/ parser'.pc = "trapped"
          \/ /\ parser'.pc = "assemble"
             /\ parser'.nodeStack # <<>>
             /\ Top(parser'.nodeStack).second = parser.root

C6_Examples ==
  /\ (ParseDone /\ RootType = "T_OBJECT" /\ parser.json = <<"[", "1", ",", "2", "]">>) =>
        ~parser.success /\ parser.error = <<"The given root node is not an array">>
  /\ (ParseDone /\ RootType = "T_ARRAY" /\ parser.json = <<"{", DQ, "a", DQ, ":", "1", "}">>) =>
        ~parser.success /\ parser.error = <<"The given root node is not an object">>

C6_RootKindEnforced == [][C6_Step]_vars /\ []C6_Examples

C6_Witness ==
  /\ ParseDone /\ RootType = "T_OBJECT" /\ parser.json = <<"[", "1", ",", "2", "]">>
  /\ ~parser.success /\ parser.error = <<"The given root node is not an array">>

\* C2: UnescapeString(EscapeString(s)) = s for every string s, in particular
\* over the eight special characters.
C2_EscapeInverse == esc.stage = "unescaped" => esc.unescaped = esc.value

\* C3: a block or line comment inserted between two tokens changes neither the
\* result of Parse() nor the tree.
IsLiteralChar(c) == ~IsWhitespace(c) /\ c \notin {"{", "}", "[", "]", ",", ":", DQ, "/"}
QuotesBefore(text, pos) == Cardinality({i \in 1..pos : text[i] = DQ})
BetweenTokens(text, pos) ==
  /\ pos >= 1 /\ pos < Len(text)
  /\ QuotesBefore(text, pos) % 2 = 0
  /\ ~(IsLiteralChar(text[pos]) /\ IsLiteralChar(text[pos + 1]))

C3_CommentTransparent ==
  (cmp.stage = "both" /\ BetweenTokens(cmp.text, cmp.pos)) => cmp.commented = cmp.plain

\* C1: a tree built through the Add API with String, Number, Bool and Null
\* leaves, written compact, parsed into a fresh root of its kind and written
\* compact again, gives the first text; Parse() succeeds.
C1_RoundTrip ==
  cmp.stage = "roundtrip" => cmp.returned /\ cmp.success /\ cmp.second = cmp.first

\* C7 as stated: the value accessors throw TypeException on Object and Array
\* nodes, ToInt / ToFloat / ToDouble throw it on a Value that is not a Number
\* and ToBool on a Value that is not a Bool.
C7_AccessorsThrowUnlessMatching ==
  \A id \in Live(mem) :
    /\ ~IsValue(mem, id) =>
         /\ ToString(mem, id).throws = "TypeException"
         /\ ToInt(mem, id).throws = "TypeException"
         /\ ToFloat(mem, id).throws = "TypeException"
         /\ ToDouble(mem, id).throws = "TypeException"
         /\ ToBool(mem, id).throws = "TypeException"
    /\ (IsValue(mem, id) /\ ~IsNumber(mem, id)) =>
         /\ ToInt(mem, id).throws = "TypeException"
         /\ ToFloat(mem, id).throws = "TypeException"
         /\ ToDouble(mem, id).throws = "TypeException"
    /\ (IsValue(mem, id) /\ ~IsBool(mem, id)) => ToBool(mem, id).throws = "TypeException"

\* C7 amended: the value accessors throw TypeException on Object and Array
\* nodes; on a Value node none of them throws: ToInt / ToFloat / ToDouble return
\* 0 unless the Value is a Number, ToBool returns false unless it is a Bool,
\* ToString returns the stored text, "null" for a Null.
C7_AccessorsAmended ==
  \A id \in Live(mem) :
    /\ ~IsValue(mem, id) =>
         /\ ToString(mem, id).throws = "TypeException"
         /\ ToInt(mem, id).throws = "TypeException"
         /\ ToFloat(mem, id).throws = "TypeException"
         /\ ToDouble(mem, id).throws = "TypeException"
         /\ ToBool(mem, id).throws = "TypeException"
    /\ IsValue(mem, id) =>
         /\ ToString(mem, id).throws = "none"
         /\ ToInt(mem, id).throws = "none"
         /\ ToFloat(mem, id).throws = "none"
         /\ ToDouble(mem, id).throws = "none"
         /\ ToBool(mem, id).throws = "none"
         /\ ~IsNumber(mem, id) =>
              /\ ToInt(mem, id).value = 0
              /\ ToFloat(mem, id).value.num = 0
              /\ ToDouble(mem, id).value.num = 0
         /\ ~IsBool(mem, id) => ToBool(mem, id).value = FALSE
         /\ ToString(mem, id).value =
              IF mem.heap[id].vtype = "VT_NULL" THEN <<"n", "u", "l", "l">> ELSE mem.heap[id].valueStr

C7_Witness ==
  /\ \E id \in Live(mem) : IsObject(mem, id)
  /\ \E id \in Live(mem) : IsArray(mem, id)
  /\ \E id \in Live(mem) : IsString(mem, id)

\* C8: Object::Get(name) returns the first entry, in insertion order, of that
\* name and throws NotFoundException iff Has(name) is false; Array::Get(i)
\* returns the i-th element iff i < GetCount() and throws it otherwise.
C8_Lookup ==
  /\ \A obj \in Objects, name \in Names :
       LET kids == mem.heap[obj].children
           r    == ObjectGet(mem, obj, name)
       IN  /\ (r.throws = "NotFoundException") <=> ~ObjectHas(mem, obj, name)
           /\ r.throws \in {"none", "NotFoundException"}
           /\ ObjectHas(mem, obj, name) <=> \E i \in 1..Len(kids) : kids[i].first = name
           /\ r.throws = "none" =>
                \E i \in 1..Len(kids) :
                  /\ kids[i].first = name /\ r.value = kids[i].second
                  /\ \A j \in 1..(i - 1) : kids[j].first # name
  /\ \A arr \in Arrays :
       \A i \in 0..(GetCount(mem, arr) + 1) :
         LET r == ArrayGet(mem, arr, i)
         IN  IF i < GetCount(mem, arr)
             THEN r.throws = "none" /\ r.value = mem.heap[arr].children[i + 1]
             ELSE r.throws = "NotFoundException"

C8_Witness ==
  /\ lastOp.op \in {"ObjectRemove", "ObjectAdd"}
  /\ \E obj \in Objects :
       \E i, j \in 1..Len(mem.heap[obj].children) :
         i < j /\ mem.heap[obj].children[i].first = mem.heap[obj].children[j].first
  /\ \E arr \in Arrays : GetCount(mem, arr) >= 1

\* C9: an Object is an ordered multimap: Add(name, node) appends an entry even
\* if the name exists, Remove(name) deletes only the first entry of that name
\* and keeps the order of the others (nothing if absent), Clear empties it;
\* GetCount() is the number of entries and Write() renders them in that order.
Entries(m, id) == Tree(m, id).entries

RefRemoveFirst(list, name) ==
  IF \A i \in 1..Len(list) : list[i].name # name THEN list
  ELSE LET k == CHOOSE i \in 1..Len(list) :
                  list[i].name = name /\ \A j \in 1..(i - 1) : list[j].name # name
       IN  SubSeq(list, 1, k - 1) \o SubSeq(list, k + 1, Len(list))

RECURSIVE RefEntriesText(_, _, _)
RefEntriesText(m, kids, k) ==
  IF k > Len(kids) THEN <<>>
  ELSE (IF k > 1 THEN <<",">> ELSE <<>>)
       \o <<DQ>> \o kids[k].first \o <<DQ, ":">> \o Write(m, kids[k].second, NoFormat)
       \o RefEntriesText(m, kids, k + 1)

C9_Step ==
  LET t == lastOp'.target
  IN  /\ lastOp'.op = "ObjectAdd" =>
           Entries(mem', t) = Append(Entries(mem, t), [name |-> lastOp'.name, node |-> Tree(mem, lastOp'.src)])
      /\ lastOp'.op = "ObjectRemove" =>
           Entries(mem', t) = RefRemoveFirst(Entries(mem, t), lastOp'.name)
      /\ lastOp'.op = "Clear" => Entries(mem', t) = <<>>

C9_Order ==
  \A obj \in Objects :
    /\ GetCount(mem, obj) = Len(Entries(mem, obj))
    /\ Write(mem, obj, NoFormat) = <<"{">> \o RefEntriesText(mem, mem.heap[obj].children, 1) \o <<"}">>

C10_Step ==
  LET op  == lastOp'.op
      t   == lastOp'.target
      src == lastOp'.src
  IN  /\ op \in {"ObjectAdd", "ArrayAdd"} =>
           LET kids == ChildPtrs(mem'.heap[t])
               c    == kids[Len(kids)]
           IN  /\ Subtree(mem', c) \cap Live(mem) = {}
               /\ Tree(mem', c) = Tree(mem, src)
      /\ op = "copy" =>
           /\ Subtree(mem', t) \cap Live(mem) = {}
           /\ Tree(mem', t) = Tree(mem, src)
           /\ \A n \in Live(mem) : Tree(mem', n) = Tree(mem, n)
      /\ op \in {"ObjectAdd", "ArrayAdd", "ObjectRemove", "ArrayRemove", "Clear", "Set"} =>
           \A n \in Live(mem) \cap Live(mem') :
             t \notin Subtree(mem, n) => Tree(mem', n) = Tree(mem, n)

C10_DeepCopy == [][C10_Step]_vars

C10_Witness ==
  /\ lastOp.op = "ObjectAdd" /\ lastOp.src = lastOp.target
  /\ LET kids == mem.heap[lastOp.target].children
     IN  Len(kids) >= 2 /\ GetCount(mem, kids[Len(kids)].second) >= 1

\* C11: after any sequence of Add, Remove, Clear, copy construction, copy
\* assignment and destruction, every child pointer of a container is a live
\* node held by exactly one container slot and by no variable of the client,
\* no node is reachable from itself, and no node was released twice.
Holders(m, c) ==
  UNION {{<<n, i>> : i \in {j \in 1..Len(m.heap[n].children) : ChildPtrs(m.heap[n])[j] = c}} :
         n \in Live(m)}

C11_ExclusiveOwnership ==
  /\ ~mem.badFree
  /\ \A n \in Live(mem) :
       /\ \A i \in 1..Len(mem.heap[n].children) :
            LET c == ChildPtrs(mem.heap[n])[i]
            IN  /\ c \in Live(mem)
                /\ Cardinality(Holders(mem, c)) = 1
                /\ c \notin roots
                /\ n \notin Subtree(mem, c)

\* C12 as stated: the Object {a: Number 1} written with StandardFormat is
\* '{', newline, one space, "a": 1, newline, '}'.
IsExampleObject(m, id) ==
  Tree(m, id) = [type |-> "T_OBJECT", vtype |-> "none", valueStr |-> <<>>,
                 entries |-> <<[name |-> <<"a">>,
                                node |-> [type |-> "T_VALUE", vtype |-> "VT_NUMBER",
                                          valueStr |-> <<"1">>, entries |-> <<>>]]>>]

PrettyWritten == cmp.stage = "written" /\ cmp.format = StandardFormat /\ IsExampleObject(mem, cmp.root)

C12_PrettySpaceIndent ==
  PrettyWritten => cmp.text = <<"{", NL, SPC, DQ, "a", DQ, ":", SPC, "1", NL, "}">>

\* C12 amended: the Object {a: Number 1} written with StandardFormat is
\* '{', newline, one tab, "a": 1, newline, '}'.
C12_PrettyTabIndent ==
  PrettyWritten => cmp.text = <<"{", NL, TAB, DQ, "a", DQ, ":", SPC, "1", NL, "}">>

C12_Witness == PrettyWritten /\ Len(cmp.text) = 11

\* the rendering the layout rule and the value rule describe
RefEscapeChar(c) ==
  CASE c = BSL -> <<BSL, BSL>>
    [] c = SL  -> <<BSL, SL>>
    [] c = DQ  -> <<BSL, DQ>>
    [] c = NL  -> <<BSL, "n">>
    [] c = TAB -> <<BSL, "t">>
    [] c = BS  -> <<BSL, "b">>
    [] c = FF  -> <<BSL, "f">>
    [] c = CR  -> <<BSL, "r">>
    [] OTHER   -> <<c>>

RECURSIVE RefEscape(_)
RefEscape(str) == IF str = <<>> THEN <<>> ELSE RefEscapeChar(Head(str)) \o RefEscape(Tail(str))

RefValue(node) ==
  IF node.vtype = "VT_STRING" THEN <<DQ>> \o RefEscape(node.valueStr) \o <<DQ>>
  ELSE IF node.vtype = "VT_NULL" THEN <<"n", "u", "l", "l">>
  ELSE node.valueStr

RefSP(f) == IF f.spacing THEN <<SPC>> ELSE <<>>
RefNL(f) == IF f.newline THEN <<NL>> ELSE RefSP(f)
RefIND(f, k) ==
  IF f.newline THEN [i \in 1..(f.indentSize * k) |-> IF f.useTabs THEN TAB ELSE SPC] ELSE <<>>

RECURSIVE RefJoin(_, _, _)
RefJoin(parts, sep, k) ==
  IF k > Len(parts) THEN <<>>
  ELSE (IF k > 1 THEN sep ELSE <<>>) \o parts[k] \o RefJoin(parts, sep, k + 1)

RECURSIVE RefRender(_, _, _, _)
RefRender(m, f, id, L) ==
  LET node == m.heap[id]
      isObj == node.type = "T_OBJECT"
      entry(i) ==
        RefIND(f, L + 1)
          \o (IF isObj THEN <<DQ>> \o node.children[i].first \o <<DQ, ":">> \o RefSP(f) ELSE <<>>)
          \o RefRender(m, f, ChildPtrs(node)[i], L + 1)
  IN  IF node.type = "T_VALUE" THEN RefValue(node)
      ELSE (IF isObj THEN <<"{">> ELSE <<"[">>) \o RefNL(f)
           \o RefJoin([i \in 1..Len(node.children) |-> entry(i)], <<",">> \o RefNL(f), 1)
           \o RefNL(f) \o RefIND(f, L) \o (IF isObj THEN <<"}">> ELSE <<"]">>)

\* C13: for every format and tree, Write() is the layout: a container at
\* level L is its bracket, NL, the entries joined by ',' NL, each IND(L+1)
\* (then "name": SP for an Object) and the child at level L+1, then NL, IND(L)
\* and the closing bracket; compact, {a: 1} is {"a":1}.
C13_WriterLayout ==
  /\ cmp.stage = "written" => cmp.text = RefRender(mem, cmp.format, cmp.root, 0)
  /\ (cmp.stage = "written" /\ cmp.format = NoFormat /\ IsExampleObject(mem, cmp.root)) =>
        cmp.text = <<"{", DQ, "a", DQ, ":", "1", "}">>

C13_Witness ==
  /\ cmp.stage = "written" /\ cmp.format.newline /\ cmp.format.indentSize = 2
  /\ IsArray(mem, cmp.root) /\ GetCount(mem, cmp.root) >= 2
  /\ IsObject(mem, mem.heap[cmp.root].children[1]) /\ GetCount(mem, mem.heap[cmp.root].children[1]) >= 1

\* C14: a String Value is written as '"', the text with each of the eight
\* special characters replaced by its backslash pair and every other
\* character copied, '"'; a Null as null whatever its stored text; a Number
\* or a Bool as its stored text.
C14_ValueRendering ==
  (cmp.stage = "written" /\ IsValue(mem, cmp.root)) =>
     /\ cmp.text = RefValue(mem.heap[cmp.root])
     /\ IsNull(mem, cmp.root) => cmp.text = <<"n", "u", "l", "l">>
     /\ (IsNumber(mem, cmp.root) \/ IsBool(mem, cmp.root)) => cmp.text = mem.heap[cmp.root].valueStr

C14_Witness ==
  /\ cmp.stage = "written" /\ IsString(mem, cmp.root)
  /\ mem.heap[cmp.root].valueStr = <<SL, NL>>
  /\ cmp.text = <<DQ, BSL, SL, BSL, "n", DQ>>

\* C15: the text of N '[' and N ']' parsed into a new Array root succeeds and
\* gives arrays nested N deep, the innermost empty; written compact the tree
\* is the text again.
RECURSIVE NestedTree(_)
NestedTree(n) ==
  [type |-> "T_ARRAY", vtype |-> "none", valueStr |-> <<>>,
   entries |-> IF n = 1 THEN <<>> ELSE <<[name |-> <<>>, node |-> NestedTree(n - 1)]>>]

C15_DeepNesting ==
  /\ parser.pc # "trapped"
  /\ ParseDone =>
        /\ parser.success
        /\ Tree(mem, parser.root) = NestedTree(Len(parser.json) \div 2)
  /\ cmp.stage = "written" => cmp.text = parser.json

C15_Witness ==
  /\ cmp.stage = "written" /\ Len(parser.json) >= 6
  /\ cmp.text = parser.json /\ parser.success

\* C16: {} parsed into a new Object root succeeds with GetCount() = 0, and []
\* parsed into a new Array root succeeds with GetCount() = 0.
C16_EmptyContainers ==
  /\ (parser.json = <<"{", "}">> /\ RootType = "T_OBJECT") =>
        /\ parser.pc # "trapped"
        /\ ParseDone => parser.success /\ GetCount(mem, parser.root) = 0
  /\ (parser.json = <<"[", "]">> /\ RootType = "T_ARRAY") =>
        /\ parser.pc # "trapped"
        /\ ParseDone => parser.success /\ GetCount(mem, parser.root) = 0

C16_Witness ==
  /\ ParseDone /\ parser.json = <<"{", "}">> /\ IsObject(mem, parser.root)
  /\ parser.success /\ GetCount(mem, parser.root) = 0

\* C17: what a Parse() call returns, its error message and the tree it leaves
\* depend on the text and on the root before the call only, not on earlier
\* Parse() calls of the same Parser; after a Parse() that returned true the
\* token queue and the payload queue are empty.
C17_NoSharedParseState ==
  /\ cmp.stage = "second" =>
        /\ cmp.again.returned = cmp.fresh.returned
        /\ cmp.again.returned => cmp.again = cmp.fresh
  /\ (cmp.stage \in {"first", "second"} /\ parser.pc = "done" /\ parser.success) =>
        parser.tokens = <<>> /\ parser.data = <<>>

\* a T_VALUE token that is not followed by T_SEPARATOR_NAME is next
TerminalValueNext ==
  /\ parser.pc = "assemble" /\ parser.tokens # <<>> /\ Head(parser.tokens) = "T_VALUE"
  /\ ~(Len(parser.tokens) >= 2 /\ parser.tokens[2] = "T_SEPARATOR_NAME")

InAssembly == parser.pc \in {"assemble", "done", "trapped"}

\* C18 as stated: during assembly every frame of the stack holds an Object
\* or an Array, never a Value, and a terminal T_VALUE token pushes no frame.
C18_FramesHold ==
  InAssembly => \A i \in 1..Len(parser.nodeStack) : ~IsValue(mem, parser.nodeStack[i].second)

C18_ValueStep == TerminalValueNext => parser'.nodeStack = parser.nodeStack

C18_FramesAreContainers == [][C18_ValueStep]_vars /\ []C18_FramesHold

\* C18 amended: during assembly every frame holds a live Object or Array,
\* except that the bottom frame may hold the root when the root is a Value; a
\* terminal T_VALUE token pushes no frame on a stack that is not empty, and
\* on the empty stack it pushes the root, which is then a Value.
C18_FramesHoldAmended ==
  InAssembly =>
    \A i \in 1..Len(parser.nodeStack) :
      LET node == parser.nodeStack[i].second
      IN  /\ node \in Live(mem)
          /\ IsValue(mem, node) => i = 1 /\ node = parser.root

C18_ValueStepAmended ==
  TerminalValueNext =>
    IF parser.nodeStack # <<>> THEN parser'.nodeStack = parser.nodeStack
    ELSE IF parser'.pc = "assemble"
    THEN /\ parser'.nodeStack = <<[first |-> parser.name, second |-> parser.root]>>
         /\ IsValue(mem', parser.root)
    ELSE parser'.nodeStack = parser.nodeStack

C18_FramesAmended == [][C18_ValueStepAmended]_vars /\ []C18_FramesHoldAmended

C18_Witness ==
  /\ ParseDone /\ parser.success /\ parser.json = <<"1", SPC, "1">>
  /\ parser.nodeStack # <<>> /\ IsValue(mem, parser.nodeStack[1].second)

\* C19: on T_OBJ_END / T_ARRAY_END the assembler fails with the unmatched
\* close message on an empty stack and with the mismatch message when the top
\* frame's node is not of the token's kind; otherwise it pops exactly one
\* frame and, if a frame remains, appends the popped container to the new
\* top, under the frame's name for an Object and as an element for an Array,
\* and fails with "Can only add elements to objects and arrays" if the new
\* top is a Value.
FailsWith(msg) == parser'.pc = "done" /\ ~parser'.success /\ parser'.error = msg

C19_Step ==
  (parser.pc = "assemble" /\ parser.tokens # <<>>
     /\ Head(parser.tokens) \in {"T_OBJ_END", "T_ARRAY_END"}) =>
    LET t     == Head(parser.tokens)
        stack == parser.nodeStack
    IN  IF stack = <<>>
        THEN FailsWith(<<"Found end of object or array without beginning">>) /\ mem' = mem
        ELSE IF t = "T_OBJ_END" /\ ~IsObject(mem, Top(stack).second)
        THEN /\ FailsWith(<<"Mismatched end and beginning of object">>)
             /\ mem' = mem /\ parser'.nodeStack = stack
        ELSE IF t = "T_ARRAY_END" /\ ~IsArray(mem, Top(stack).second)
        THEN /\ FailsWith(<<"Mismatched end and beginning of array">>)
             /\ mem' = mem /\ parser'.nodeStack = stack
        ELSE /\ parser'.nodeStack = Pop(stack)
             /\ IF Pop(stack) = <<>> THEN mem' = mem /\ parser'.pc = "assemble"
                ELSE LET nt == Top(Pop(stack)).second
                         popped == Tree(mem, Top(stack).second)
                     IN  IF IsObject(mem, nt)
                         THEN /\ parser'.pc = "assemble"
                              /\ Entries(mem', nt) =
                                   Append(Entries(mem, nt), [name |-> Top(stack).first, node |-> popped])
                         ELSE IF IsArray(mem, nt)
                         THEN /\ parser'.pc = "assemble"
                              /\ Entries(mem', nt) = Append(Entries(mem, nt), [name |-> <<>>, node |-> popped])
                         ELSE FailsWith(<<"Can only add elements to objects and arrays">>)

C19_ClosingTokens == [][C19_Step]_vars

C19_Witness ==
  /\ ParseDone /\ parser.success /\ parser.json = <<"{", DQ, "a", DQ, ":", "[", "]", "}">>
  /\ Entries(mem, parser.root) =
       <<[name |-> <<"a">>,
          node |-> [type |-> "T_ARRAY", vtype |-> "none", valueStr |-> <<>>, entries |-> <<>>]]>>

\* C20: a T_VALUE token followed by T_SEPARATOR_NAME is consumed together
\* with it; the step fails with "A name has to be a string" if the payload is
\* not a String, else the payload's text becomes the pending name.  A
\* terminal value attached to an Object gets the pending name, and after the
\* attachment of a terminal value the pending name is empty: {"a":1,2} gives
\* the entries a and "" (empty name).
NameNext ==
  /\ parser.pc = "assemble" /\ Len(parser.tokens) >= 2
  /\ parser.tokens[1] = "T_VALUE" /\ parser.tokens[2] = "T_SEPARATOR_NAME"

C20_NameStep ==
  (NameNext /\ parser.data # <<>>) =>
     /\ parser'.tokens = Tail(Tail(parser.tokens))
     /\ mem' = mem /\ parser'.nodeStack = parser.nodeStack
     /\ IF Head(parser.data).first # "VT_STRING"
        THEN FailsWith(<<"A name has to be a string">>)
        ELSE /\ parser'.pc = "assemble"
             /\ parser'.name = Head(parser.data).second
             /\ parser'.data = Tail(parser.data)

C20_AttachStep ==
  (TerminalValueNext /\ parser.nodeStack # <<>> /\ parser'.pc = "assemble") =>
     LET top == Top(parser.nodeStack).second
     IN  /\ parser'.name = <<>>
         /\ IsObject(mem, top) =>
              /\ Len(Entries(mem', top)) = Len(Entries(mem, top)) + 1
              /\ Entries(mem', top)[Len(Entries(mem', top))].name = parser.name
              /\ SubSeq(Entries(mem', top), 1, Len(Entries(mem, top))) = Entries(mem, top)

C20_Example ==
  (ParseDone /\ RootType = "T_OBJECT"
     /\ parser.json = <<"{", DQ, "a", DQ, ":", "1", ",", "2", "}">>) =>
     /\ parser.success
     /\ Len(Entries(mem, parser.root)) = 2
     /\ Entries(mem, parser.root)[1].name = <<"a">>
     /\ Entries(mem, parser.root)[1].node.valueStr = <<"1">>
     /\ Entries(mem, parser.root)[2].name = <<>>
     /\ Entries(mem, parser.root)[2].node.valueStr = <<"2">>

C20_PendingName == [][C20_NameStep /\ C20_AttachStep]_vars /\ []C20_Example

C20_Witness ==
  /\ ParseDone /\ IsObject(mem, parser.root) /\ parser.success
  /\ parser.json = <<"{", DQ, "a", DQ, ":", "1", ",", "2", "}">>
  /\ Len(Entries(mem, parser.root)) = 2
  /\ Entries(mem, parser.root)[2].name = <<>>

\* C21: a nested container is attached to its parent Object under the name
\* that was pending when its BEGIN token was processed: the BEGIN step puts
\* the pending name into the new frame and clears it, no later step changes a
\* frame below the top, and the END step attaches under the frame's name;
\* {"a":{"b":1}} into an Object root gives a: {b: 1}.
AssembleStepNext == parser.pc = "assemble" /\ parser.tokens # <<>>

C21_BeginStep ==
  (AssembleStepNext /\ Head(parser.tokens) \in {"T_OBJ_BEGIN", "T_ARRAY_BEGIN"}
     /\ parser'.pc = "assemble") =>
     /\ Len(parser'.nodeStack) = Len(parser.nodeStack) + 1
     /\ Top(parser'.nodeStack).first = parser.name
     /\ parser'.name = <<>>

C21_FramesKept ==
  AssembleStepNext =>
    \/ parser'.nodeStack = parser.nodeStack
    \/ parser.nodeStack # <<>> /\ parser'.nodeStack = Pop(parser.nodeStack)
    \/ parser'.nodeStack # <<>> /\ Pop(parser'.nodeStack) = parser.nodeStack

C21_EndStep ==
  (AssembleStepNext /\ Head(parser.tokens) \in {"T_OBJ_END", "T_ARRAY_END"}
     /\ parser'.pc = "assemble" /\ parser'.nodeStack # <<>>
     /\ IsObject(mem, Top(parser'.nodeStack).second)) =>
     LET new == Entries(mem', Top(parser'.nodeStack).second)
     IN  /\ new # <<>>
         /\ new[Len(new)].name = Top(parser.nodeStack).first
         /\ new[Len(new)].node = Tree(mem, Top(parser.nodeStack).second)

C21_Text == <<"{", DQ, "a", DQ, ":", "{", DQ, "b", DQ, ":", "1", "}", "}">>

C21_Tree ==
  [type |-> "T_OBJECT", vtype |-> "none", valueStr |-> <<>>,
   entries |-> <<[name |-> <<"a">>,
                  node |-> [type |-> "T_OBJECT", vtype |-> "none", valueStr |-> <<>>,
                            entries |-> <<[name |-> <<"b">>,
                                           node |-> [type |-> "T_VALUE", vtype |-> "VT_NUMBER",
                                                     valueStr |-> <<"1">>, entries |-> <<>>]]>>]]>>]

C21_Example ==
  (ParseDone /\ parser.json = C21_Text /\ RootType = "T_OBJECT") =>
     parser.success /\ Tree(mem, parser.root) = C21_Tree

C21_FrameName == [][C21_BeginStep /\ C21_FramesKept /\ C21_EndStep]_vars /\ []C21_Example

C21_Witness ==
  ParseDone /\ parser.json = C21_Text /\ parser.success /\ Tree(mem, parser.root) = C21_Tree

\* C22: assemble() returns true exactly when the token queue runs empty and
\* no token has failed, whatever is left on the stack; the containers still
\* open at that point are not part of the root. {"a":[1 into an Object root
\* returns success with two open frames and an empty root.
C22_EndStep ==
  (parser.pc = "assemble" /\ parser.tokens = <<>>) =>
     /\ parser'.pc = "done" /\ parser'.success
     /\ parser'.nodeStack = parser.nodeStack /\ parser'.error = parser.error
     /\ mem' = mem

C22_FailStep ==
  (AssembleStepNext /\ parser'.pc = "done") => ~parser'.success

C22_OpenAbsent ==
  (ParseDone /\ parser.success) =>
     /\ parser.tokens = <<>>
     /\ \A i \in 1..Len(parser.nodeStack) :
          parser.nodeStack[i].second # parser.root =>
             parser.nodeStack[i].second \notin Subtree(mem, parser.root)

C22_Text == <<"{", DQ, "a", DQ, ":", "[", "1">>

C22_Example ==
  (ParseDone /\ parser.json = C22_Text /\ RootType = "T_OBJECT") =>
     /\ parser.success
     /\ Len(parser.nodeStack) = 2
     /\ Entries(mem, parser.root) = <<>>

C22_EndOfStream == [][C22_EndStep /\ C22_FailStep]_vars /\ [](C22_OpenAbsent /\ C22_Example)

C22_Witness ==
  /\ ParseDone /\ parser.json = C22_Text /\ parser.success
  /\ Len(parser.nodeStack) = 2 /\ IsArray(mem, Top(parser.nodeStack).second)
  /\ Entries(mem, Top(parser.nodeStack).second) # <<>>
  /\ Entries(mem, parser.root) = <<>>

\* C23: no literal is lost by the tokenizer: when tokenize() returns the
\* pending literal buffer is empty, and for a text without strings and
\* comments there is one payload for every maximal run of literal characters.
TokenizeReturns == parser.pc = "tokenize" /\ parser'.pc = "assemble"

LiteralRuns(text) ==
  Cardinality({i \in 1..Len(text) :
                 IsLiteralChar(text[i]) /\ (i = 1 \/ ~IsLiteralChar(text[i - 1]))})

C23_ReturnStep ==
  TokenizeReturns =>
     /\ parser'.valueBuffer = <<>>
     /\ (\A i \in 1..Len(parser.json) : parser.json[i] \notin {DQ, "/"}) =>
           Len(parser'.data) = LiteralRuns(parser.json)

PayloadTokens(tokens) ==
  Cardinality({i \in 1..Len(tokens) : tokens[i] \in {"T_VALUE", "T_UNKNOWN"}})

C24_ReturnStep ==
  TokenizeReturns => Len(parser'.data) = PayloadTokens(parser'.tokens)

C24_StringStep ==
  (parser.pc = "tokenize" /\ parser.cursor < parser.jsonSize
     /\ At(parser, parser.cursor) = DQ /\ parser.valueBuffer # <<>>
     /\ parser'.pc = "tokenize") =>
     /\ Len(parser'.data) = Len(parser.data) + 2
     /\ Len(parser'.tokens) = Len(parser.tokens) + 2
     /\ parser'.tokens[Len(parser'.tokens)] = "T_VALUE"
     /\ parser'.data[Len(parser'.data)] =
          [first |-> "VT_STRING", second |-> StringEnd(parser, parser.cursor + 1, NUL, <<>>).str]

IsPrefix(s, t) == Len(s) <= Len(t) /\ SubSeq(t, 1, Len(s)) = s

AllWhitespace(text) == \A i \in 1..Len(text) : IsWhitespace(text[i])

C25_RootStep == IsPrefix(Entries(mem, parser.root), Entries(mem', parser.root))

C25_BeforeKept ==
  cmp.stage = "preloaded" =>
     /\ RootType = cmp.before.type
     /\ IsPrefix(cmp.before.entries, Entries(mem, parser.root))

C25_NoTokens ==
  (cmp.stage = "preloaded" /\ ParseDone /\ AllWhitespace(parser.json)) =>
     parser.success /\ Tree(mem, parser.root) = cmp.before

C25_NumberTwo == [type |-> "T_VALUE", vtype |-> "VT_NUMBER", valueStr |-> <<"2">>, entries |-> <<>>]

C25_Example ==
  (cmp.stage = "preloaded" /\ ParseDone /\ RootType = "T_OBJECT"
     /\ parser.json = <<"{", DQ, "b", DQ, ":", "2", "}">>) =>
     /\ parser.success
     /\ Entries(mem, parser.root) =
          Append(cmp.before.entries, [name |-> <<"b">>, node |-> C25_NumberTwo])

C25_RootKept == [][C25_RootStep]_vars /\ [](C25_BeforeKept /\ C25_NoTokens /\ C25_Example)

C25_Witness ==
  /\ cmp.stage = "preloaded" /\ ParseDone /\ parser.success
  /\ parser.json = <<"{", DQ, "b", DQ, ":", "2", "}">>
  /\ Len(cmp.before.entries) = 1 /\ cmp.before.entries[1].name = <<"a">>
  /\ Len(Entries(mem, parser.root)) = 2
  /\ Entries(mem, parser.root)[1] = cmp.before.entries[1]
  /\ Entries(mem, parser.root)[2].name = <<"b">>

\* C26: Node::DetermineType(json) returns T_OBJECT when the first character
\* of json that is not whitespace is '{', T_ARRAY when it is '[', and T_VALUE
\* otherwise, also for an empty or all-whitespace text.
FirstNonWhitespace(json) ==
  Min({i \in 1..Len(json) : ~IsWhitespace(json[i])} \cup {Len(json) + 1})

C26_Expected(json) ==
  LET k == FirstNonWhitespace(json)
  IN  IF k = Len(json) + 1 THEN "T_VALUE"
      ELSE IF json[k] = "{" THEN "T_OBJECT"
      ELSE IF json[k] = "[" THEN "T_ARRAY"
      ELSE "T_VALUE"

C26_DetermineType == cmp.stage = "determined" => cmp.type = C26_Expected(cmp.json)

\* C27: for one Parse() call on a newly constructed Parser, Parse() returns
\* false iff GetError() is not empty afterwards: every step that returns
\* false has set a non-empty message, and no other step changes the message.
C27_FailStep ==
  (parser.pc \in {"tokenize", "assemble"} /\ parser'.pc = "done" /\ ~parser'.success) =>
     GetError(parser') # <<>>

C27_OtherStep ==
  (parser.pc \in {"idle", "tokenize", "assemble"} /\ ~(parser'.pc = "done" /\ ~parser'.success)) =>
     GetError(parser') = GetError(parser)

C27_Returned == ParseDone => (~parser.success <=> GetError(parser) # <<>>)

C27_ErrorChannel == [][C27_FailStep /\ C27_OtherStep]_vars /\ []C27_Returned

C27_Witness == ParseDone /\ ~parser.success /\ GetError(parser) # <<>> /\ parser.tokens # <<>>

\* C28: Parse() terminates on every finite input: every iteration of the
\* loop of tokenize() moves the cursor forward, readString, jumpToNext and
\* jumpToCommentEnd move it forward and not beyond the end of the text, every
\* iteration of the loop of assemble() removes at least one token from the
\* front of the queue and adds none, and every call comes to its end.
C28_TokenizeStep ==
  (parser.pc = "tokenize" /\ parser.cursor < parser.jsonSize /\ parser'.pc = "tokenize") =>
     /\ parser'.cursor > parser.cursor
     /\ parser'.cursor <= parser.jsonSize + 1
     /\ parser'.json = parser.json /\ parser'.jsonSize = parser.jsonSize

C28_Jumps ==
  (parser.pc = "tokenize" /\ parser.cursor < parser.jsonSize) =>
     /\ At(parser, parser.cursor) = DQ =>
          readString(parser).cursor \in (parser.cursor + 1)..parser.jsonSize
     /\ jumpToNext(parser, NL) \in (parser.cursor + 1)..parser.jsonSize
     /\ jumpToCommentEnd(parser) \in (parser.cursor + 1)..parser.jsonSize

C28_AssembleStep ==
  AssembleStepNext =>
     /\ Len(parser'.tokens) < Len(parser.tokens)
     /\ parser'.tokens =
          SubSeq(parser.tokens, Len(parser.tokens) - Len(parser'.tokens) + 1, Len(parser.tokens))

C28_Terminates ==
  /\ [][C28_TokenizeStep /\ C28_AssembleStep]_vars
  /\ [](parser.pc # "idle" => C28_Jumps)
  /\ <>(parser.pc \in {"done", "trapped"})

C28_Witness ==
  /\ ParseDone /\ parser.cursor = parser.jsonSize + 1 /\ parser.tokens = <<>>
  /\ \E i \in 1..Len(parser.json) : parser.json[i] = "/"
  /\ \E i \in 1..Len(parser.json) : parser.json[i] = DQ

====
